---- MODULE Spec2Model ----
(***************************************************************************)
(* A model of zenfs-core: the mutex adapter (src/src/mixins/mutexed.ts),   *)
(* the overlay backend (src/src/backends/overlay.ts) and the virtual file  *)
(* system over the mount table (src/src/vfs/promises.ts and                *)
(* src/src/emulation/sync.ts).                                             *)
(*                                                                         *)
(* Several specifications share the module.  MutexSpec runs callers        *)
(* against one mutex-wrapped backend; OverlaySpec runs overlay operations  *)
(* over an upper and a lower backend; OpenSpec, RealpathSpec and MoveSpec  *)
(* run the VFS calls over mounted backends.  Each keeps the variables of   *)
(* the other components fixed.                                             *)
(***************************************************************************)
EXTENDS Integers, Sequences, FiniteSets, TLC

VARIABLES
    \* ---- mutex adapter ----
    locks,        \* every MutexLock created so far, in creation order
    currentLock,  \* _MutexedFS.currentLock: index into locks, 0 = undefined
    pc,           \* where each caller stands
    call,         \* the kind of wrapper method a caller is inside
    myLock,       \* the lock a caller's lock()/lockSync() created, 0 = none
    result,       \* how a caller's call ended
    x,            \* the shared counter of the race-condition test
    backendCalls, \* calls the wrapper has passed to the wrapped backend
    timers,       \* the setTimeout callbacks lock() has armed, one per call
    \* ---- overlay ----
    upper,        \* the writable backend: path -> node
    lower,        \* the readable backend: path -> node
    deletedFiles, \* UnmutexedOverlayFS.deletedFiles
    deleteLog,    \* UnmutexedOverlayFS.deleteLog
    last,         \* the overlay operation that ran last, and how it ended
    logWrites,    \* the updateLog calls under way: what each awaits
    \* ---- virtual file system ----
    mounted,      \* the mount table: mount point -> backend (path -> node)
    fdMap,        \* the FD table: fd -> index into files
    files,        \* every File opened so far: its path, flag, closed flag
    pend,         \* the asynchronous call that is suspended, if any
    config,       \* config.checkAccess and the caller's credentials
    args,         \* the surface, flag and mode a run's caller opens files with
    events,       \* what emitChange has emitted during the last operation
    vlast,        \* the VFS operation that ran last, and how it ended
    \* ---- watch iterator, Dir, SimpleTransaction ----
    iter,         \* a watch() iterator: its eventQueue, its watcher, its results
    stream,       \* a Dir: closed, _entries, the reads under way, their results
    txn           \* a SimpleTransaction and its store

mutexVars == <<locks, currentLock, pc, call, myLock, result, x, backendCalls,
              timers>>
overlayVars == <<upper, lower, deletedFiles, deleteLog, last, logWrites>>
vfsVars == <<mounted, fdMap, files, pend, config, args, events, vlast>>
objVars == <<iter, stream, txn>>
vars == <<mutexVars, overlayVars, vfsVars, objVars>>

(***************************************************************************)
(* Bounds.                                                                 *)
(***************************************************************************)
NTasks == 3
Tasks == 1..NTasks

\* The longest deletion log, in characters, the overlay runs let grow.
MaxLogLen == 8

(***************************************************************************)
(*                          THE MUTEX ADAPTER                              *)
(***************************************************************************)

\* The asynchronous methods of _MutexedFS that take the lock.
AsyncMethods ==
    {"rename", "stat", "openFile", "createFile", "unlink", "rmdir",
     "mkdir", "readdir", "exists", "link", "sync"}

\* Their synchronous twins.
SyncMethods ==
    {"renameSync", "statSync", "openFileSync", "createFileSync", "unlinkSync",
     "rmdirSync", "mkdirSync", "readdirSync", "existsSync", "linkSync",
     "syncSync"}

\* ready() and metadata() call straight through.
PassThroughMethods == {"ready", "metadata"}

\* The methods that hand back a File and rebind it: file.fs = this.
ReturnsFile == {"openFile", "createFile", "openFileSync", "createFileSync"}

\* How a call into the wrapped backend can end.
Outcomes == {"ok", "err"}

\* new MutexLock(previous): _isLocked starts true, current is unresolved.
MutexLock(previous) == [isLocked |-> TRUE, previous |-> previous]

\* MutexLock.done(): await this.previous?.done(); await this.current.promise.
\* The promise of done() is resolved once every lock down the chain has been
\* unlocked.
RECURSIVE done_resolved(_, _)
done_resolved(ls, k) ==
    IF k = 0 THEN TRUE
    ELSE done_resolved(ls, ls[k].previous) /\ ~ls[k].isLocked

done_never_waits(ls, k) == TRUE

done(ls, k) == done_resolved(ls, k)

\* MutexLock.unlock(): resolves current and clears _isLocked.
unlock_keeps(ls, k) == ls

unlock(ls, k) == [ls EXCEPT ![k].isLocked = FALSE]

\* _MutexedFS.isLocked: !!this.currentLock?.isLocked
isLocked_tail(ls, cur) == cur # 0 /\ ls[cur].isLocked

isLocked(ls, cur) == isLocked_tail(ls, cur)

\* `using _` releases the lock when the scope is left, by return and by throw.
usingDisposes_always(outcome) == TRUE

usingDisposes_onReturnOnly(outcome) == outcome = "ok"

usingDisposes(outcome) == usingDisposes_always(outcome)

\* The locking methods differ only in what they do with the backend's answer:
\* a caller's state keeps that much of the method it is inside.
Kind(m) == IF m \in ReturnsFile THEN "returnsFile" ELSE "plain"

LockingKinds == {"plain", "returnsFile"}

\* What a caller sees when its call through the wrapper settles.
Settled(kind, outcome) ==
    IF outcome = "err" THEN "err"
    ELSE IF kind = "returnsFile" THEN "file" ELSE "ok"

\* lock(): setTimeout(() => { if (lock.isLocked) throw EDEADLK }, 5000).
\* The callback is armed for the lock the call has just added.
setTimeout(k) == timers' = Append(timers, [lock |-> k, state |-> "armed"])

\* _MutexedFS.addLock()
addLock(t) ==
    /\ locks' = Append(locks, MutexLock(currentLock))
    /\ currentLock' = Len(locks) + 1
    /\ myLock' = [myLock EXCEPT ![t] = Len(locks) + 1]

\* The synchronous part of lock(): previous = currentLock; lock = addLock();
\* then the caller is suspended on `await previous?.done()`.
\* An asynchronous method of the wrapper begins with it.
CallAsync(t, m) ==
    /\ pc[t] = "idle"
    /\ m \in AsyncMethods
    /\ addLock(t)
    /\ pc' = [pc EXCEPT ![t] = "waiting"]
    /\ call' = [call EXCEPT ![t] = Kind(m)]
    /\ UNCHANGED <<result, x, backendCalls>>
    /\ setTimeout(Len(locks) + 1)
    /\ UNCHANGED <<overlayVars, vfsVars, objVars>>

\* lock() resolves: previous?.done() has resolved.  The method goes on to
\* `await this._fs.<method>(...)`: the call is in flight at the backend.
Granted(t) ==
    /\ pc[t] = "waiting"
    /\ call[t] \in LockingKinds
    /\ done(locks, locks[myLock[t]].previous)
    /\ pc' = [pc EXCEPT ![t] = "inner"]
    /\ backendCalls' = backendCalls + 1
    /\ UNCHANGED <<locks, currentLock, call, myLock, result, x>>
    /\ UNCHANGED <<timers, overlayVars, vfsVars, objVars>>

\* The backend call settles; leaving the scope disposes the lock.
InnerSettles(t, outcome) ==
    /\ pc[t] = "inner"
    /\ call[t] \in LockingKinds
    /\ locks' = IF usingDisposes(outcome) THEN unlock(locks, myLock[t]) ELSE locks
    /\ pc' = [pc EXCEPT ![t] = "done"]
    /\ call' = [call EXCEPT ![t] = "none"]
    /\ result' = [result EXCEPT ![t] = Settled(call[t], outcome)]
    /\ UNCHANGED <<currentLock, myLock, x, backendCalls>>
    /\ UNCHANGED <<timers, overlayVars, vfsVars, objVars>>

\* lockSync(): EBUSY if the current lock is locked, else addLock().
lockSync_busy_checked(ls, cur) == isLocked(ls, cur)

lockSync_busy_unchecked(ls, cur) == FALSE

lockSync_busy(ls, cur) == lockSync_busy_checked(ls, cur)

\* A synchronous method: lockSync, the backend call, and the disposal of the
\* lock happen without suspension.
CallSync(t, m, outcome) ==
    /\ pc[t] = "idle"
    /\ m \in SyncMethods
    /\ pc' = [pc EXCEPT ![t] = "done"]
    /\ IF lockSync_busy(locks, currentLock)
       THEN /\ result' = [result EXCEPT ![t] = "EBUSY"]
            /\ UNCHANGED <<locks, currentLock, myLock, backendCalls>>
       ELSE /\ locks' = Append(locks,
                    [MutexLock(currentLock) EXCEPT
                        !.isLocked = ~usingDisposes(outcome)])
            /\ currentLock' = Len(locks) + 1
            /\ myLock' = [myLock EXCEPT ![t] = Len(locks) + 1]
            /\ backendCalls' = backendCalls + 1
            /\ result' = [result EXCEPT ![t] = Settled(Kind(m), outcome)]
    /\ UNCHANGED <<call, x>>
    /\ UNCHANGED <<timers, overlayVars, vfsVars, objVars>>

\* A caller takes the lock with lockSync() and keeps it (test lock/unlock).
LockSync(t) ==
    /\ pc[t] = "idle"
    /\ IF lockSync_busy(locks, currentLock)
       THEN /\ pc' = [pc EXCEPT ![t] = "done"]
            /\ result' = [result EXCEPT ![t] = "EBUSY"]
            /\ UNCHANGED <<locks, currentLock, myLock>>
       ELSE /\ addLock(t)
            /\ pc' = [pc EXCEPT ![t] = "holding"]
            /\ UNCHANGED result
    /\ UNCHANGED <<call, x, backendCalls>>
    /\ UNCHANGED <<timers, overlayVars, vfsVars, objVars>>

\* ... and unlocks it.
Unlock(t) ==
    /\ pc[t] = "holding"
    /\ locks' = unlock(locks, myLock[t])
    /\ pc' = [pc EXCEPT ![t] = "done"]
    /\ result' = [result EXCEPT ![t] = "ok"]
    /\ UNCHANGED <<currentLock, call, myLock, x, backendCalls>>
    /\ UNCHANGED <<timers, overlayVars, vfsVars, objVars>>

\* ready(): return await this._fs.ready() -- no lock is taken.
Ready(t) ==
    /\ pc[t] = "idle"
    /\ call' = [call EXCEPT ![t] = "ready"]
    /\ pc' = [pc EXCEPT ![t] = "inner"]
    /\ backendCalls' = backendCalls + 1
    /\ UNCHANGED <<locks, currentLock, myLock, result, x>>
    /\ UNCHANGED <<timers, overlayVars, vfsVars, objVars>>

ReadySettles(t, outcome) ==
    /\ pc[t] = "inner"
    /\ call[t] = "ready"
    /\ pc' = [pc EXCEPT ![t] = "done"]
    /\ call' = [call EXCEPT ![t] = "none"]
    /\ result' = [result EXCEPT ![t] = outcome]
    /\ UNCHANGED <<locks, currentLock, myLock, x, backendCalls>>
    /\ UNCHANGED <<timers, overlayVars, vfsVars, objVars>>

\* metadata(): return this._fs.metadata() -- synchronous, no lock is taken.
Metadata(t) ==
    /\ pc[t] = "idle"
    /\ pc' = [pc EXCEPT ![t] = "done"]
    /\ result' = [result EXCEPT ![t] = "ok"]
    /\ backendCalls' = backendCalls + 1
    /\ UNCHANGED <<locks, currentLock, call, myLock, x>>
    /\ UNCHANGED <<timers, overlayVars, vfsVars, objVars>>

\* foo() of the race-condition test:
\*   const lock = await fs.lock(...); await wait(100); x++; lock.unlock();
FooLock(t) ==
    /\ pc[t] = "idle"
    /\ addLock(t)
    /\ call' = [call EXCEPT ![t] = "foo"]
    /\ pc' = [pc EXCEPT ![t] = "waiting"]
    /\ UNCHANGED <<result, x, backendCalls>>
    /\ setTimeout(Len(locks) + 1)
    /\ UNCHANGED <<overlayVars, vfsVars, objVars>>

FooGranted(t) ==
    /\ pc[t] = "waiting"
    /\ call[t] = "foo"
    /\ done(locks, locks[myLock[t]].previous)
    /\ pc' = [pc EXCEPT ![t] = "sleeping"]
    /\ UNCHANGED <<locks, currentLock, call, myLock, result, x, backendCalls>>
    /\ UNCHANGED <<timers, overlayVars, vfsVars, objVars>>

FooWakes(t) ==
    /\ pc[t] = "sleeping"
    /\ x' = x + 1
    /\ locks' = unlock(locks, myLock[t])
    /\ pc' = [pc EXCEPT ![t] = "done"]
    /\ call' = [call EXCEPT ![t] = "none"]
    /\ result' = [result EXCEPT ![t] = "foo"]
    /\ UNCHANGED <<currentLock, myLock, backendCalls>>
    /\ UNCHANGED <<timers, overlayVars, vfsVars, objVars>>

MutexInit ==
    /\ locks = <<>>
    /\ timers = <<>>
    /\ iter = <<>>
    /\ stream = <<>>
    /\ txn = <<>>
    /\ currentLock = 0
    /\ pc = [t \in Tasks |-> "idle"]
    /\ call = [t \in Tasks |-> "none"]
    /\ myLock = [t \in Tasks |-> 0]
    /\ result = [t \in Tasks |-> "none"]
    /\ x = 1
    /\ backendCalls = 0
    \* the overlay is not part of these runs
    /\ upper = <<>>
    /\ lower = <<>>
    /\ deletedFiles = {}
    /\ deleteLog = <<>>
    /\ logWrites = <<>>
    /\ last = [op |-> "none"]
    \* the virtual file system is not part of these runs
    /\ mounted = <<>>
    /\ fdMap = <<>>
    /\ files = <<>>
    /\ pend = [op |-> "none"]
    /\ config = [checkAccess |-> TRUE, cred |-> "root"]
    /\ args = [surface |-> "sync", flag |-> "r", mode |-> 0]
    /\ events = <<>>
    /\ vlast = [op |-> "none"]

MutexNext ==
    \E t \in Tasks :
        \/ \E m \in AsyncMethods : CallAsync(t, m)
        \/ Granted(t)
        \/ \E o \in Outcomes : InnerSettles(t, o)
        \/ \E m \in SyncMethods, o \in Outcomes : CallSync(t, m, o)
        \/ LockSync(t)
        \/ Unlock(t)
        \/ Ready(t)
        \/ \E o \in Outcomes : ReadySettles(t, o)
        \/ Metadata(t)
        \/ FooLock(t)
        \/ FooGranted(t)
        \/ FooWakes(t)

MutexSpec == MutexInit /\ [][MutexNext]_vars

(***************************************************************************)
(*                     PROPERTIES OF THE MUTEX ADAPTER                     *)
(***************************************************************************)

\* The locking calls in flight at the wrapped backend.
InFlight == {t \in Tasks : pc[t] = "inner" /\ call[t] \in LockingKinds}

\* The callers that ran foo() to its end.
FooDone == {t \in Tasks : result[t] = "foo"}

\* The caller whose lock()/lockSync() created lock k.
Owner(k) == CHOOSE t \in Tasks : myLock[t] = k

\* The promise of the lock() that created lock k has resolved (a lock made by
\* lockSync() is handed over at once).
LockGranted(k) == pc[Owner(k)] # "waiting"

\* No lock of the chain is held or queued.
NoLockHeld == \A k \in 1..Len(locks) : ~locks[k].isLocked

\* C1: under any interleaving of rename, stat, openFile, createFile, unlink,
\* rmdir, mkdir, readdir, exists, link and sync on one wrapper, at most one of
\* these calls is in flight at the wrapped backend; and the counter of the
\* race-condition test, which starts at 1, has grown by one for every foo()
\* that has finished, so three finished foo() leave it at 4.
C1_AtMostOneInFlight ==
    /\ Cardinality(InFlight) <= 1
    /\ x = 1 + Cardinality(FooDone)
    /\ (Cardinality(FooDone) = 3 => x = 4)

\* C1 witness: one foo() has finished, one locking call is in flight and a
\* third caller is queued behind it.
C1_Witness ==
    \E t, u, v \in Tasks :
        /\ pc[t] = "inner" /\ call[t] \in LockingKinds
        /\ pc[u] = "waiting"
        /\ result[v] = "foo" /\ x = 2

\* C2: mutex FIFO.  For two locks of the chain, the earlier requested first:
\* once the later one's lock() has resolved, the earlier one's has resolved
\* too and the earlier lock has been unlocked.
C2_MutexFIFO ==
    \A i, j \in 1..Len(locks) :
        (i < j /\ LockGranted(j)) => (LockGranted(i) /\ ~locks[i].isLocked)

\* C2 witness: three requests were queued; the first two have been granted
\* in turn, the second still holds its lock and the third waits.
C2_Witness ==
    /\ Len(locks) = 3
    /\ pc[Owner(1)] = "done" /\ ~locks[1].isLocked
    /\ pc[Owner(2)] \in {"inner", "sleeping"} /\ locks[2].isLocked
    /\ pc[Owner(3)] = "waiting"

\* A step in which caller t goes through lockSync() and gets the lock.
LockSyncSucceeds(t) ==
    pc[t] = "idle" /\ pc'[t] \in {"holding", "done"} /\ myLock'[t] # 0

\* A step in which caller t goes through lockSync() and gets EBUSY.
LockSyncFails(t) == pc[t] = "idle" /\ result'[t] = "EBUSY"

\* The parts of C3 about taking the lock.
C3_Taking(t) ==
    /\ LockSyncSucceeds(t) =>
          /\ NoLockHeld
          /\ Len(locks') = Len(locks) + 1
          /\ (pc'[t] = "holding" => isLocked(locks', currentLock'))
    /\ LockSyncFails(t) =>
          /\ ~NoLockHeld
          /\ locks' = locks /\ currentLock' = currentLock
          /\ backendCalls' = backendCalls

\* C3 as stated: lockSync() returns a new held lock iff no lock of the
\* wrapper is held or queued, else it throws EBUSY, adds no lock and calls
\* no backend; after a successful lockSync() isLocked is true, and after
\* that lock's unlock() isLocked is false.
C3_AsStated ==
    [][\A t \in Tasks :
          /\ C3_Taking(t)
          /\ (pc[t] = "holding" /\ pc'[t] = "done") =>
                ~isLocked(locks', currentLock')]_vars

\* C3 amended: ... after that lock's unlock() isLocked is false exactly when
\* no lock() was requested behind it in the meantime; isLocked reports the
\* newest lock of the chain.
C3_LockSync ==
    [][\A t \in Tasks :
          /\ C3_Taking(t)
          /\ (pc[t] = "holding" /\ pc'[t] = "done") =>
                (~isLocked(locks', currentLock') <=> currentLock = myLock[t])]_vars

\* C3 witness: one caller holds the lock it took with lockSync(), another
\* caller's synchronous call was turned away with EBUSY.
C3_Witness ==
    \E t, u \in Tasks : pc[t] = "holding" /\ result[u] = "EBUSY"

\* Caller t has been granted its lock and has not released it.
HoldsLock(t) ==
    /\ myLock[t] # 0
    /\ locks[myLock[t]].isLocked
    /\ done(locks, locks[myLock[t]].previous)

\* C4 as stated: every public method of the adapter holds the lock while
\* its call is in flight at the wrapped backend, and has released it once
\* the call has settled, by return or by throw.
C4_AsStated ==
    \A t \in Tasks :
        /\ pc[t] = "inner" => HoldsLock(t)
        /\ (pc[t] = "done" /\ myLock[t] # 0) => ~locks[myLock[t]].isLocked

\* C4 amended: every public method other than ready() and metadata(), which
\* call straight through, holds the lock while its call is in flight and has
\* released it once the call has settled, by return or by throw.
C4_LockAroundCall ==
    \A t \in Tasks :
        /\ (pc[t] = "inner" /\ call[t] \in LockingKinds) => HoldsLock(t)
        /\ (pc[t] = "done" /\ myLock[t] # 0) => ~locks[myLock[t]].isLocked

\* C4 witness: a call through the wrapper has failed and the wrapper is not
\* locked.
C4_Witness ==
    \E t \in Tasks :
        /\ result[t] = "err" /\ myLock[t] # 0
        /\ ~isLocked(locks, currentLock)

(***************************************************************************)
(*                              STRINGS                                    *)
(* A string is the sequence of its characters, so that joining, splitting  *)
(* and slicing are what the code does to the characters.                   *)
(***************************************************************************)

\* const deletionLogPath = '/.deleted'
deletionLogPath == <<"/", ".", "d", "e", "l", "e", "t", "e", "d">>

Root == <<"/">>

\* The paths and names the runs use.
Paths == {Root, <<"/", "f">>, <<"/", "a">>, <<"/", "a", "/", "f">>, deletionLogPath}

\* The index of the last '/' of a path.
LastSlash(p) == CHOOSE i \in 1..Len(p) :
                    p[i] = "/" /\ \A j \in (i+1)..Len(p) : p[j] # "/"

\* dirname(path) of emulation/path.ts, on absolute normalized paths.
dirname(p) == IF LastSlash(p) = 1 THEN Root ELSE SubSeq(p, 1, LastSlash(p) - 1)

\* basename(path) of emulation/path.ts, on absolute normalized paths.
basename(p) == SubSeq(p, LastSlash(p) + 1, Len(p))

\* `${path}/${file}`
TemplateJoin(path, file) == path \o <<"/">> \o file

\* The path of entry `file` of directory `path`.
ChildPath(path, file) == IF path = Root THEN Root \o file ELSE TemplateJoin(path, file)

\* String.prototype.split(sep), for a one-character separator.
RECURSIVE SplitFrom(_, _, _, _, _)
SplitFrom(str, sep, i, cur, out) ==
    IF i > Len(str) THEN Append(out, cur)
    ELSE IF str[i] = sep THEN SplitFrom(str, sep, i + 1, <<>>, Append(out, cur))
    ELSE SplitFrom(str, sep, i + 1, Append(cur, str[i]), out)

split(str, sep) == SplitFrom(str, sep, 1, <<>>, <<>>)

\* a | b on non-negative integers
RECURSIVE BitOr(_, _)
BitOr(a, b) ==
    IF a = 0 THEN b
    ELSE IF b = 0 THEN a
    ELSE (IF a % 2 = 1 \/ b % 2 = 1 THEN 1 ELSE 0) + 2 * BitOr(a \div 2, b \div 2)

\* oldStat.mode |= 0o222
WriteBits == 146

\* this.writable.createFile(path, 'w', 0o644, cred)
SyncCreateMode == 420

(***************************************************************************)
(*                          A LEAF BACKEND                                 *)
(* upper and lower are leaf backends: a map from the paths that exist to   *)
(* their nodes.  Every operation either answers or throws an errno.        *)
(***************************************************************************)

Dir(mode) == [kind |-> "dir", mode |-> mode, data |-> <<>>]
File(mode, data) == [kind |-> "file", mode |-> mode, data |-> data]

B_exists(fs, p) == p \in DOMAIN fs

\* The entries of directory p.
B_entries(fs, p) ==
    {basename(q) : q \in {r \in DOMAIN fs : r # Root /\ dirname(r) = p}}

\* readdir(p): its errno, "ok" when it answers.
B_readdirErr(fs, p) ==
    IF ~B_exists(fs, p) THEN "ENOENT"
    ELSE IF fs[p].kind # "dir" THEN "ENOTDIR" ELSE "ok"

\* fs with node n at path p.
B_put(fs, p, n) == [q \in DOMAIN fs \cup {p} |-> IF q = p THEN n ELSE fs[q]]

\* fs without path p.
B_remove(fs, p) == [q \in DOMAIN fs \ {p} |-> fs[q]]

\* createFile / mkdir: the errno of adding a node at p.
B_newErr(fs, p) ==
    IF B_exists(fs, p) THEN "EEXIST"
    ELSE IF ~B_exists(fs, dirname(p)) THEN "ENOENT"
    ELSE IF fs[dirname(p)].kind # "dir" THEN "ENOTDIR" ELSE "ok"

B_unlinkErr(fs, p) ==
    IF ~B_exists(fs, p) THEN "ENOENT"
    ELSE IF fs[p].kind = "dir" THEN "EISDIR" ELSE "ok"

B_rmdirErr(fs, p) ==
    IF ~B_exists(fs, p) THEN "ENOENT"
    ELSE IF fs[p].kind # "dir" THEN "ENOTDIR"
    ELSE IF B_entries(fs, p) # {} THEN "ENOTEMPTY" ELSE "ok"

\* Whether q lies at or below p.
Under(p, q) ==
    \/ q = p
    \/ Len(q) > Len(p) /\ SubSeq(q, 1, Len(p)) = p /\ q[Len(p) + 1] = "/"

\* Path q, at or below oldPath, after oldPath has become newPath.
Moved(oldPath, newPath, q) == newPath \o SubSeq(q, Len(oldPath) + 1, Len(q))

B_renameErr(fs, oldPath, newPath) ==
    IF ~B_exists(fs, oldPath) \/ oldPath = Root THEN "ENOENT"
    ELSE IF oldPath # newPath /\ Under(oldPath, newPath) THEN "EBUSY"
    ELSE IF ~B_exists(fs, dirname(newPath)) THEN "ENOENT"
    ELSE IF fs[dirname(newPath)].kind # "dir" THEN "ENOTDIR"
    ELSE IF B_exists(fs, newPath) /\ fs[newPath].kind = "dir" /\ oldPath # newPath
         THEN "EPERM"
    ELSE "ok"

\* rename(oldPath, newPath): the node and what lies below it move; a file at
\* newPath is replaced.
B_rename(fs, oldPath, newPath) ==
    LET moving == {q \in DOMAIN fs : Under(oldPath, q)}
        staying == (DOMAIN fs \ moving) \ {newPath}
        arrived == {Moved(oldPath, newPath, q) : q \in moving}
    IN  [q \in staying \cup arrived |->
            IF q \in arrived
            THEN fs[CHOOSE r \in moving : Moved(oldPath, newPath, r) = q]
            ELSE fs[q]]

\* sync(p, data, stats): the node takes the data and the mode of the stats.
B_sync(fs, p, data, mode) == [fs EXCEPT ![p].data = data, ![p].mode = mode]

\* A write of `data` at position 0 into a buffer holding `old`: what lay
\* beyond the written bytes stays.
WriteAt0(old, data) == data \o SubSeq(old, Len(data) + 1, Len(old))

(***************************************************************************)
(*                              THE OVERLAY                                *)
(* An operation takes the overlay's state S = [up, del, log] (the upper    *)
(* backend, deletedFiles, deleteLog) and gives the state it leaves, with   *)
(* res = "ok" or the errno it threw.  A throw keeps what was done before   *)
(* it.  lower is only read.                                                *)
(***************************************************************************)

Here == [up |-> upper, del |-> deletedFiles, log |-> deleteLog]

Ends(S, e) == [up |-> S.up, del |-> S.del, log |-> S.log, res |-> e]

\* UnmutexedOverlayFS.stat
stat(S, p) ==
    IF p \in S.del THEN [res |-> "ENOENT"]
    ELSE IF B_exists(S.up, p)
         THEN [res |-> "ok", kind |-> S.up[p].kind, mode |-> S.up[p].mode]
    ELSE IF B_exists(lower, p)
         THEN [res |-> "ok", kind |-> lower[p].kind,
               mode |-> BitOr(lower[p].mode, WriteBits)]
    ELSE [res |-> "ENOENT"]

\* FileSystem.exists: stat, with ENOENT mapped to false.
exists(S, p) == stat(S, p).res = "ok"

\* The entries of lower's directory that readdir keeps.
readdir_lowerKept(S, path) ==
    {file \in B_entries(lower, path) : TemplateJoin(path, file) \notin S.del}

\* UnmutexedOverlayFS.readdir
readdir(S, path) ==
    LET st == stat(S, path) IN
    IF st.res # "ok" THEN [res |-> st.res, names |-> {}]
    ELSE IF st.kind # "dir" THEN [res |-> "ENOTDIR", names |-> {}]
    ELSE [res |-> "ok",
          names |->
            (IF B_readdirErr(S.up, path) = "ok" THEN B_entries(S.up, path) ELSE {})
            \cup
            (IF B_readdirErr(lower, path) = "ok"
             THEN readdir_lowerKept(S, path) ELSE {})]

\* An updateLog that keeps the log in memory only.
updateLog_written_nothing(old, log) == old

\* What log.write(encode(this.deleteLog)) leaves in the log file.
updateLog_written(old, log) == WriteAt0(old, log)

\* UnmutexedOverlayFS.updateLog
updateLog(S, addition) ==
    LET log == S.log \o addition
        S1 == [S EXCEPT !.log = log] IN
    IF ~B_exists(S.up, deletionLogPath) THEN Ends(S1, "ENOENT")
    ELSE Ends([S1 EXCEPT !.up[deletionLogPath].data = updateLog_written(@, log)],
              "ok")

\* UnmutexedOverlayFS.deletePath
deletePath(S, path) ==
    updateLog([S EXCEPT !.del = @ \cup {path}], <<"d">> \o path \o <<"\n">>)

\* UnmutexedOverlayFS.reparseDeletionLog
reparseDeletionLog(log) ==
    LET entries == split(log, "\n") IN
    {Tail(entries[i]) :
        i \in {j \in 1..Len(entries) :
                  Len(entries[j]) > 0 /\ entries[j][1] = "d"}}

\* The ancestors of p that upper lacks, topmost first.
RECURSIVE toCreate(_, _)
toCreate(up, parent) ==
    IF B_exists(up, parent) THEN <<>>
    ELSE Append(toCreate(up, dirname(parent)), parent)

RECURSIVE mkdirEach(_, _)
mkdirEach(S, ps) ==
    IF ps = <<>> THEN Ends(S, "ok")
    ELSE LET p == Head(ps)
             st == stat(S, p) IN
         IF st.res # "ok" THEN Ends(S, st.res)
         ELSE IF B_newErr(S.up, p) # "ok" THEN Ends(S, B_newErr(S.up, p))
         ELSE mkdirEach([S EXCEPT !.up = B_put(@, p, Dir(st.mode))], Tail(ps))

\* UnmutexedOverlayFS.createParentDirectories
createParentDirectories(S, path) == mkdirEach(S, toCreate(S.up, dirname(path)))

\* UnmutexedOverlayFS.sync
sync(S, path, data, mode) ==
    LET S1 == createParentDirectories(S, path) IN
    IF S1.res # "ok" THEN S1
    ELSE IF ~B_exists(S1.up, path) /\ B_newErr(S1.up, path) # "ok"
         THEN Ends(S1, B_newErr(S1.up, path))
    ELSE LET up1 == IF B_exists(S1.up, path) THEN S1.up
                    ELSE B_put(S1.up, path, File(SyncCreateMode, <<>>))
         IN Ends([S1 EXCEPT !.up = B_sync(up1, path, data, mode)], "ok")

\* An openFile that hands out lower's own File.
openFile_fs_readable(onUpper) == IF onUpper THEN "upper" ELSE "lower"

\* Which file system the File that openFile returns belongs to.
openFile_fs(onUpper) == IF onUpper THEN "upper" ELSE "overlay"

\* UnmutexedOverlayFS.openFile
openFile(S, path) ==
    IF B_exists(S.up, path)
    THEN [res |-> "ok",
          file |-> [path |-> path, fs |-> openFile_fs(TRUE),
                    mode |-> S.up[path].mode, data |-> S.up[path].data]]
    ELSE IF B_exists(lower, path)
    THEN [res |-> "ok",
          file |-> [path |-> path, fs |-> openFile_fs(FALSE),
                    mode |-> lower[path].mode, data |-> lower[path].data]]
    ELSE [res |-> "ENOENT"]

\* UnmutexedOverlayFS.createFile (the state it leaves; the File is openFile's)
createFile(S, path, mode) ==
    IF B_newErr(S.up, path) # "ok" THEN Ends(S, B_newErr(S.up, path))
    ELSE Ends([S EXCEPT !.up = B_put(@, path, File(mode, <<>>))], "ok")

\* UnmutexedOverlayFS.unlink
unlink(S, path) ==
    IF ~exists(S, path) THEN Ends(S, "ENOENT")
    ELSE IF B_exists(S.up, path) /\ B_unlinkErr(S.up, path) # "ok"
         THEN Ends(S, B_unlinkErr(S.up, path))
    ELSE LET S1 == IF B_exists(S.up, path)
                   THEN [S EXCEPT !.up = B_remove(@, path)] ELSE S
         IN IF exists(S1, path) THEN deletePath(S1, path) ELSE Ends(S1, "ok")

\* UnmutexedOverlayFS.rmdir
rmdir(S, path) ==
    IF ~exists(S, path) THEN Ends(S, "ENOENT")
    ELSE IF B_exists(S.up, path) /\ B_rmdirErr(S.up, path) # "ok"
         THEN Ends(S, B_rmdirErr(S.up, path))
    ELSE LET S1 == IF B_exists(S.up, path)
                   THEN [S EXCEPT !.up = B_remove(@, path)] ELSE S
             rd == readdir(S1, path)
         IN IF ~exists(S1, path) THEN Ends(S1, "ok")
            ELSE IF rd.res # "ok" THEN Ends(S1, rd.res)
            ELSE IF rd.names # {} THEN Ends(S1, "ENOTEMPTY")
            ELSE deletePath(S1, path)

\* UnmutexedOverlayFS.mkdir
mkdir(S, path, mode) ==
    IF exists(S, path) THEN Ends(S, "EEXIST")
    ELSE LET S1 == createParentDirectories(S, path) IN
         IF S1.res # "ok" THEN S1
         ELSE IF B_newErr(S1.up, path) # "ok" THEN Ends(S1, B_newErr(S1.up, path))
         ELSE Ends([S1 EXCEPT !.up = B_put(@, path, Dir(mode))], "ok")

\* UnmutexedOverlayFS.rename
rename(S, oldPath, newPath) ==
    IF oldPath \in S.del THEN Ends(S, "ENOENT")
    ELSE IF B_renameErr(S.up, oldPath, newPath) # "ok"
         THEN Ends(S, B_renameErr(S.up, oldPath, newPath))
    ELSE Ends([S EXCEPT !.up = B_rename(@, oldPath, newPath)], "ok")

\* UnmutexedOverlayFS._initialize: the deleteLog a new overlay starts with.
initialLog(up) ==
    IF B_exists(up, deletionLogPath) THEN up[deletionLogPath].data ELSE <<>>

\* What the overlay reads back for a path: the content openFile hands out.
readBack(S, path) ==
    IF openFile(S, path).res = "ok" THEN openFile(S, path).file.data ELSE <<>>

\* File.sync() of a File of file system fs: fs.sync(path, buffer, stats).
\* Gives [S, low, res]: the overlay's state, lower, and how it ended.
File_sync(S, low, file, buffer) ==
    CASE file.fs = "overlay" ->
            LET S1 == sync(S, file.path, buffer, file.mode) IN
            [S |-> S1, low |-> low, res |-> S1.res]
      [] file.fs = "upper" ->
            IF B_exists(S.up, file.path)
            THEN [S |-> [S EXCEPT !.up = B_sync(@, file.path, buffer, file.mode)],
                  low |-> low, res |-> "ok"]
            ELSE [S |-> S, low |-> low, res |-> "ENOENT"]
      [] file.fs = "lower" ->
            IF B_exists(low, file.path)
            THEN [S |-> S, low |-> B_sync(low, file.path, buffer, file.mode),
                  res |-> "ok"]
            ELSE [S |-> S, low |-> low, res |-> "ENOENT"]

\* File.write(data) at position 0: the buffer takes the data, then sync().
File_write(S, low, file, data) == File_sync(S, low, file, WriteAt0(file.data, data))
\* UnmutexedOverlayFS.restoreDeletionLog
restoreDeletionLog(S, log) ==
    updateLog([S EXCEPT !.log = log, !.del = reparseDeletionLog(log)], <<>>)

(***************************************************************************)
(*                         THE OVERLAY'S ACTIONS                           *)
(* The overlay runs under the mutex adapter: one operation at a time.      *)
(***************************************************************************)

\* The paths operations are called on: a caller's files and directory.  A
\* caller does no more to the log file than create and unlink it.
UserFiles == {<<"/", "f">>, <<"/", "a", "/", "f">>}
FileTargets == UserFiles \cup {deletionLogPath}
DirTargets == {<<"/", "a">>}
Targets == FileTargets \cup DirTargets

\* The modes files and directories are created with (0o644, 0o777).
FileModes == {420}
DirModes == {511}

\* What is written through a file.
Written == {<<"H">>}

\* The logs a caller restores: the empty log, and one deleting /f.
RestoredLogs == {<<>>, <<"d", "/", "f", "\n">>}

\* The operation that ran, whether its path was on upper when it began, and
\* how it ended.
Ran(op, path, to, res) ==
    [op |-> op, path |-> path, to |-> to, res |-> res,
     onUpper |-> B_exists(upper, path)]

\* A write through a File of the overlay is the overlay's sync; through a
\* File of a constituent backend it is that backend's.
WriteOp(file) == IF file.fs = "overlay" THEN "sync" ELSE "File.sync"

\* The overlay takes the state an operation left.
Leaves(S) ==
    /\ Len(S.log) <= MaxLogLen
    /\ upper' = S.up
    /\ deletedFiles' = S.del
    /\ deleteLog' = S.log

CreateFile(path, mode) ==
    /\ Leaves(createFile(Here, path, mode))
    /\ last' = Ran("createFile", path, path, createFile(Here, path, mode).res)
    /\ UNCHANGED lower
    /\ UNCHANGED <<mutexVars, vfsVars, logWrites, objVars>>

Unlink(path) ==
    /\ Leaves(unlink(Here, path))
    /\ last' = Ran("unlink", path, path, unlink(Here, path).res)
    /\ UNCHANGED lower
    /\ UNCHANGED <<mutexVars, vfsVars, logWrites, objVars>>

Rmdir(path) ==
    /\ Leaves(rmdir(Here, path))
    /\ last' = Ran("rmdir", path, path, rmdir(Here, path).res)
    /\ UNCHANGED lower
    /\ UNCHANGED <<mutexVars, vfsVars, logWrites, objVars>>

Mkdir(path, mode) ==
    /\ Leaves(mkdir(Here, path, mode))
    /\ last' = Ran("mkdir", path, path, mkdir(Here, path, mode).res)
    /\ UNCHANGED lower
    /\ UNCHANGED <<mutexVars, vfsVars, logWrites, objVars>>

Rename(oldPath, newPath) ==
    /\ Leaves(rename(Here, oldPath, newPath))
    /\ last' = Ran("rename", oldPath, newPath, rename(Here, oldPath, newPath).res)
    /\ UNCHANGED lower
    /\ UNCHANGED <<mutexVars, vfsVars, logWrites, objVars>>

RestoreDeletionLog(log) ==
    /\ Leaves(restoreDeletionLog(Here, log))
    /\ last' = Ran("restoreDeletionLog", deletionLogPath, deletionLogPath,
                   restoreDeletionLog(Here, log).res)
    /\ UNCHANGED lower
    /\ UNCHANGED <<mutexVars, vfsVars, logWrites, objVars>>

\* A caller opens a file through the overlay, writes through the File it
\* got, and closes it.
WriteFile(path, data) ==
    /\ openFile(Here, path).res = "ok"
    /\ LET w == File_write(Here, lower, openFile(Here, path).file, data) IN
       /\ Leaves(w.S)
       /\ lower' = w.low
       /\ last' = Ran(WriteOp(openFile(Here, path).file), path, path, w.res)
    /\ UNCHANGED <<mutexVars, vfsVars, logWrites, objVars>>

\* A caller writes through a File it opened earlier, when the path was on
\* lower only: openFile's overlay file for the path.
WriteStale(path, data) ==
    /\ B_exists(lower, path)
    /\ LET file == openFile([Here EXCEPT !.up = (Root :> Dir(511))], path).file
           w == File_write(Here, lower, file, data) IN
       /\ Leaves(w.S)
       /\ lower' = w.low
       /\ last' = Ran(WriteOp(file), path, path, w.res)
    /\ UNCHANGED <<mutexVars, vfsVars, logWrites, objVars>>

\* A new overlay is constructed over the same upper and lower: _initialize
\* reads the deletion log and reparses it.
Construct ==
    /\ deleteLog' = initialLog(upper)
    /\ deletedFiles' = reparseDeletionLog(initialLog(upper))
    /\ last' = Ran("construct", Root, Root, "ok")
    /\ UNCHANGED <<upper, lower>>
    /\ UNCHANGED <<mutexVars, vfsVars, logWrites, objVars>>

\* lower as the runs find it: /f (0o444), /a (0o555) and /a/f (0o444).
LowerAtStart ==
    (Root :> Dir(365)) @@ (<<"/", "f">> :> File(292, <<"h">>))
    @@ (<<"/", "a">> :> Dir(365))
    @@ (<<"/", "a", "/", "f">> :> File(292, <<"h">>))

\* An overlay constructed over an empty upper.
OverlayInit ==
    /\ upper = (Root :> Dir(511))
    /\ lower = LowerAtStart
    /\ deletedFiles = {}
    /\ deleteLog = <<>>
    /\ logWrites = <<>>
    /\ last = Ran("construct", Root, Root, "ok")
    \* the mutex adapter is not part of these runs
    /\ locks = <<>>
    /\ timers = <<>>
    /\ iter = <<>>
    /\ stream = <<>>
    /\ txn = <<>>
    /\ currentLock = 0
    /\ pc = [t \in Tasks |-> "idle"]
    /\ call = [t \in Tasks |-> "none"]
    /\ myLock = [t \in Tasks |-> 0]
    /\ result = [t \in Tasks |-> "none"]
    /\ x = 1
    /\ backendCalls = 0
    \* the virtual file system is not part of these runs
    /\ mounted = <<>>
    /\ fdMap = <<>>
    /\ files = <<>>
    /\ pend = [op |-> "none"]
    /\ config = [checkAccess |-> TRUE, cred |-> "root"]
    /\ args = [surface |-> "sync", flag |-> "r", mode |-> 0]
    /\ events = <<>>
    /\ vlast = [op |-> "none"]

OverlayNext ==
    \/ \E p \in FileTargets, m \in FileModes : CreateFile(p, m)
    \/ \E p \in Targets : Unlink(p)
    \/ \E p \in Targets : Rmdir(p)
    \/ \E p \in DirTargets, m \in DirModes : Mkdir(p, m)
    \/ \E p \in UserFiles, q \in UserFiles : Rename(p, q)
    \/ \E log \in RestoredLogs : RestoreDeletionLog(log)
    \/ \E p \in UserFiles, d \in Written : WriteFile(p, d)
    \/ \E p \in UserFiles, d \in Written : WriteStale(p, d)
    \/ Construct

OverlaySpec == OverlayInit /\ [][OverlayNext]_vars

(***************************************************************************)
(*                       PROPERTIES OF THE OVERLAY                         *)
(***************************************************************************)

\* The line the deletion log holds for a deleted path: d<path>.
LogLine(path) == <<"d">> \o path

\* The lines of the log file on upper.
PersistedLines ==
    LET entries == split(initialLog(upper), "\n") IN
    {entries[i] : i \in 1..Len(entries)}

\* The state of an overlay constructed now over the same upper and lower.
Constructed ==
    [up |-> upper, del |-> reparseDeletionLog(initialLog(upper)),
     log |-> initialLog(upper)]

\* C5 (counterexample): overlay visibility.  For every path P, stat(P) and
\* exists(P) through the overlay succeed if and only if P exists on upper,
\* or P exists on lower and is not in the deleted set.
C5_Visibility ==
    \A p \in Paths :
        exists(Here, p) <=>
            (B_exists(upper, p) \/ (B_exists(lower, p) /\ p \notin deletedFiles))

\* C6 (counterexample): whenever createFile(P) or sync(P, data, stats) on
\* the overlay has succeeded, P exists on upper and is not in the deleted
\* set.
C6_WriteMakesVisible ==
    (last.op \in {"createFile", "sync"} /\ last.res = "ok") =>
        (B_exists(upper, last.path) /\ last.path \notin deletedFiles)

WrittenOver(path) == {WriteAt0(LowerAtStart[path].data, d) : d \in Written}

\* C8: no overlay operation modifies lower: its paths, their content and
\* their metadata stay what they were at construction.  After a write to a
\* file that was on lower only, the file is on upper, the overlay reads back
\* what was written, and lower still holds the old content.
C8_LowerUntouched ==
    /\ lower = LowerAtStart
    /\ (last.op = "sync" /\ last.res = "ok" /\ ~last.onUpper) =>
          /\ B_exists(upper, last.path)
          /\ readBack(Here, last.path) \in WrittenOver(last.path)
          /\ readBack(Here, last.path) # lower[last.path].data

\* C8 witness: a write to /f, which was on lower only, has gone through: the
\* overlay reads back "H" and lower holds "h".
C8_Witness ==
    /\ last.op = "sync" /\ last.res = "ok" /\ ~last.onUpper
    /\ last.path = <<"/", "f">>
    /\ readBack(Here, last.path) = <<"H">>
    /\ lower[last.path].data = <<"h">>

\* C9 (counterexample): after rename(old, new) has succeeded, old is not
\* visible and new is visible with old's former content, whether old was on
\* upper only, on lower only or on both.
C9_Rename ==
    [][\A old \in Paths, new \in Paths :
        (/\ last'.op = "rename" /\ last'.path = old /\ last'.to = new
         /\ last'.res = "ok" /\ old # new)
        => (/\ ~exists(Here, old)'
            /\ exists(Here, new)'
            /\ readBack(Here, new)' = readBack(Here, old))]_vars

\* C10 (counterexample): readdir(p), for every directory p including the
\* root, returns exactly the union of upper's entries of p and those entries
\* of lower's p whose full path is not in the deleted set.
C10_Readdir ==
    \A p \in Paths :
        readdir(Here, p).res = "ok" =>
            readdir(Here, p).names =
                (IF B_readdirErr(upper, p) = "ok" THEN B_entries(upper, p) ELSE {})
                \cup {f \in B_entries(lower, p) : ChildPath(p, f) \notin deletedFiles}

\* C11 (counterexample): the log file is overwritten in full on each update.
\* After every completed update of the deletion log (by unlink, rmdir or
\* restoreDeletionLog, one that makes the log shorter included), the content
\* of /.deleted on upper equals the log in memory, and parsing it gives the
\* deleted set in memory.
C11_LogOverwritten ==
    [][(/\ last'.res = "ok"
        /\ \/ last'.op = "restoreDeletionLog"
           \/ last'.op \in {"unlink", "rmdir"} /\ deleteLog' # deleteLog)
       => (/\ B_exists(upper, deletionLogPath)'
           /\ initialLog(upper)' = deleteLog'
           /\ reparseDeletionLog(initialLog(upper))' = deletedFiles')]_vars


(***************************************************************************)
(*                       THE VIRTUAL FILE SYSTEM                           *)
(* src/src/vfs/promises.ts (the asynchronous surface) and                  *)
(* src/src/emulation/sync.ts (the synchronous surface), over backends      *)
(* mounted in one namespace.  A backend is a leaf backend as above; a      *)
(* symbolic link is a node whose data is its target.                       *)
(***************************************************************************)

Link(target) == [kind |-> "link", mode |-> 511, data |-> target]

\* The two surfaces of the API.
Surfaces == {"async", "sync"}

\* The flags open is called with, and what parseFlag makes of them.
Flags == {"r", "r+", "w", "wx", "w+", "a", "ax", "a+"}
isReadable(flag) == flag \in {"r", "r+", "w+", "a+"}
isWriteable(flag) == flag \in {"r+", "w", "wx", "w+", "a", "ax", "a+"}
isAppendable(flag) == flag \in {"a", "ax", "a+"}
\* An open that never truncates.
isTruncating_never(flag) == FALSE

isTruncating(flag) == flag \in {"w", "wx", "w+"}
isExclusive(flag) == flag \in {"wx", "ax"}

\* constants.R_OK, constants.W_OK
R_OK == 4
W_OK == 2

\* flagToMode(flag): the access a flag asks for.
flagToMode(flag) ==
    (IF isReadable(flag) THEN R_OK ELSE 0) + (IF isWriteable(flag) THEN W_OK ELSE 0)

\* a & b on non-negative integers
RECURSIVE BitAnd(_, _)
BitAnd(a, b) ==
    IF a = 0 \/ b = 0 THEN 0
    ELSE (IF a % 2 = 1 /\ b % 2 = 1 THEN 1 ELSE 0) + 2 * BitAnd(a \div 2, b \div 2)

\* The callers: root, and a user who owns every node.
Creds == {"root", "user"}

\* Stats.hasAccess(mode) for the caller cred: root passes; the owner needs
\* every asked bit among the owner's rwx bits.
hasAccess(node, mode, cred) ==
    \/ cred = "root"
    \/ BitAnd((node.mode \div 64) % 8, mode) = mode

\* mode: the default of open's mode argument, 0o644.
DefaultMode == 420

\* p.replaceAll(/[/\\]+/g, '/'): runs of separators collapse.
RECURSIVE collapse(_)
collapse(p) ==
    IF Len(p) < 2 THEN p
    ELSE IF p[1] = "/" /\ p[2] = "/" THEN collapse(Tail(p))
    ELSE <<p[1]>> \o collapse(Tail(p))

\* normalizePath(p), on absolute paths without '.' and '..'.
normalizePath(p) ==
    LET q == collapse(p) IN
    IF Len(q) > 1 /\ q[Len(q)] = "/" THEN SubSeq(q, 1, Len(q) - 1) ELSE q

\* join(dir, base)
join(dir, base) == normalizePath(dir \o <<"/">> \o base)

\* resolve(dir, target): an absolute target stands, a relative one is joined.
resolve(dir, target) ==
    IF Len(target) > 0 /\ target[1] = "/" THEN normalizePath(target)
    ELSE join(dir, target)

\* The mount points: the root, and /m.
MountPoints == {Root, <<"/", "m">>}

\* Whether path p lies in the mount at mp.
InMount(mp, p) == mp = Root \/ Under(mp, p)

\* resolveMount(path): the longest mount point that holds the path, and the
\* path as that backend knows it.
resolveMount(p) ==
    LET mp == CHOOSE m \in MountPoints :
                  /\ InMount(m, p)
                  /\ \A n \in MountPoints : InMount(n, p) => Len(n) <= Len(m)
    IN  [fs |-> mp,
         path |-> IF mp = Root THEN p
                  ELSE IF p = mp THEN Root
                  ELSE SubSeq(p, Len(mp) + 1, Len(p)),
         mountPoint |-> mp]

\* The node the mount table M holds for path p.
Has(M, p) == B_exists(M[resolveMount(p).fs], resolveMount(p).path)
Node(M, p) == M[resolveMount(p).fs][resolveMount(p).path]


(***************************************************************************)
(* open, readlink and realpath, as functions of the mount table M.  Each   *)
(* gives a record whose res is "ok" or the errno thrown.                   *)
(***************************************************************************)

\* The File that createFile / openFile of backend r.fs hands back.
Opened(M, r, flag, truncate) ==
    [res |-> "ok", M |-> M, truncate |-> truncate,
     file |-> [fs |-> r.fs, path |-> r.path, flag |-> flag]]

Failed(M, e) == [res |-> e, M |-> M]

\* Whether the caller's access to a node is looked at: always on the
\* synchronous surface, under config.checkAccess on the asynchronous one.
accessChecked(surface) == surface = "sync" \/ config.checkAccess

\* An open of an absent path that never gives up for its flag.
open_absentFails_never(flag) == FALSE

\* _open, path absent: the flags that fail ENOENT.
open_absentFails(flag) ==
    (~isWriteable(flag) /\ ~isAppendable(flag)) \/ flag = "r+"

\* _open / _openSync, the branch of a path that does not exist.
open_absent(surface, M, path, flag, mode) ==
    LET r == resolveMount(path)
        fs == M[r.fs]
        parent == dirname(r.path)
    IN  IF open_absentFails(flag) THEN Failed(M, "ENOENT")
        ELSE IF ~B_exists(fs, parent) THEN Failed(M, "ENOENT")
        ELSE IF accessChecked(surface) /\ ~hasAccess(fs[parent], W_OK, config.cred)
             THEN Failed(M, "EACCES")
        ELSE IF fs[parent].kind # "dir" THEN Failed(M, "ENOTDIR")
        ELSE Opened([M EXCEPT ![r.fs] = B_put(@, r.path, File(mode, <<>>))],
                    r, flag, FALSE)

\* _open / _openSync, path present: whether the caller is refused.
open_denied(surface, node, flag, mode) ==
    IF surface = "sync"
    THEN \/ ~hasAccess(node, mode, config.cred)
         \/ ~hasAccess(node, flagToMode(flag), config.cred)
    ELSE config.checkAccess /\ ~hasAccess(node, flagToMode(flag), config.cred)

\* _open / _openSync, the branch of a path that exists.  The truncation a
\* truncating flag asks for is left to the caller of this operator.
open_existing(surface, M, path, flag, mode) ==
    LET r == resolveMount(path) IN
    IF open_denied(surface, M[r.fs][r.path], flag, mode) THEN Failed(M, "EACCES")
    ELSE IF isExclusive(flag) THEN Failed(M, "EEXIST")
    ELSE Opened(M, r, flag, isTruncating(flag))

\* _open / _openSync once the path's symbolic links are resolved.
open_at(surface, M, path, flag, mode) ==
    IF Has(M, path) THEN open_existing(surface, M, path, flag, mode)
    ELSE open_absent(surface, M, path, flag, mode)

\* readlink(path): _open(path, 'r', 0o644, false), then readFile.
readlink_read(M, path, o) ==
    IF o.res = "ok" THEN [res |-> "ok", data |-> Node(M, path).data]
    ELSE [res |-> o.res]

readlink(M, path) ==
    readlink_read(M, path, open_at("async", M, path, "r", DefaultMode))

\* readlinkSync(path): _readFileSync(path, 'r', false).
readlinkSync(M, path) ==
    readlink_read(M, path, open_at("sync", M, path, "r", DefaultMode))

\* realpath(path).  seen holds the paths of the calls this call is nested
\* in: a call on one of them repeats itself without end, and the promise
\* never settles.
RECURSIVE realpath(_, _, _)

\* realpath, once the link at lpath is read.
realpath_link(M, path, seen, realDir, link) ==
    IF link.res = "ENOENT" THEN [res |-> "ok", path |-> path]
    ELSE IF link.res # "ok" THEN [res |-> link.res]
    ELSE realpath(M, resolve(realDir, link.data), seen \cup {path})

\* realpath, from the stat of lpath on.
realpath_stat(M, path, seen, realDir, lpath) ==
    IF ~Has(M, lpath) THEN [res |-> "ok", path |-> path]
    ELSE IF Node(M, lpath).kind # "link" THEN [res |-> "ok", path |-> lpath]
    ELSE realpath_link(M, path, seen, realDir, readlink(M, lpath))

\* realpath, once the directory part is resolved.
realpath_dir(M, path, seen, realDir) ==
    IF realDir.res # "ok" THEN realDir
    ELSE realpath_stat(M, path, seen, realDir.path,
                       join(realDir.path, basename(path)))

realpath(M, path, seen) ==
    IF path \in seen THEN [res |-> "unsettled"]
    ELSE realpath_dir(M, path, seen,
             IF dirname(path) = Root THEN [res |-> "ok", path |-> Root]
             ELSE realpath(M, dirname(path), seen \cup {path}))

\* realpathSync(path).  A call nested in a call on the same path recurses
\* until the stack is exhausted: a RangeError.
RECURSIVE realpathSync(_, _, _)

\* realpathSync, once the link at lpath is read.
realpathSync_link(M, path, seen, lpath, link) ==
    IF link.res # "ok" THEN [res |-> link.res]
    ELSE realpathSync(M, normalizePath(resolveMount(lpath).mountPoint \o link.data),
                      seen \cup {path})

\* realpathSync, from the stat of lpath on.
realpathSync_stat(M, path, seen, lpath) ==
    IF ~Has(M, lpath) THEN [res |-> "ENOENT"]
    ELSE IF Node(M, lpath).kind # "link" THEN [res |-> "ok", path |-> lpath]
    ELSE realpathSync_link(M, path, seen, lpath, readlinkSync(M, lpath))

\* realpathSync, once the directory part is resolved.
realpathSync_dir(M, path, seen, realDir) ==
    IF realDir.res # "ok" THEN realDir
    ELSE realpathSync_stat(M, path, seen, join(realDir.path, basename(path)))

realpathSync(M, path, seen) ==
    IF path \in seen THEN [res |-> "RangeError"]
    ELSE realpathSync_dir(M, path, seen,
             IF dirname(path) = Root THEN [res |-> "ok", path |-> Root]
             ELSE realpathSync(M, dirname(path), seen \cup {path}))

\* existsSync(path)
existsSync_at(M, real) ==
    IF real.res = "ok" THEN [res |-> "ok", value |-> Has(M, real.path)]
    ELSE IF real.res = "ENOENT" THEN [res |-> "ok", value |-> FALSE]
    ELSE [res |-> real.res]

existsSync(M, path) == existsSync_at(M, realpathSync(M, path, {}))

\* _open / _openSync, once the path is resolved.
open_real(surface, M, real, flag, mode) ==
    IF real.res # "ok" THEN Failed(M, real.res)
    ELSE open_at(surface, M, real.path, flag, mode)

\* _openSync: `resolveSymlinks && existsSync(path) ? realpathSync(path) : path`
openSync_exists(M, path, flag, mode, ex) ==
    IF ex.res # "ok" THEN Failed(M, ex.res)
    ELSE open_real("sync", M,
                   IF ex.value THEN realpathSync(M, path, {})
                   ELSE [res |-> "ok", path |-> path],
                   flag, mode)

\* _open / _openSync
_open(surface, M, path, flag, mode, resolveSymlinks) ==
    IF surface = "async"
    THEN open_real(surface, M,
                   IF resolveSymlinks THEN realpath(M, path, {})
                   ELSE [res |-> "ok", path |-> path],
                   flag, mode)
    ELSE openSync_exists(M, path, flag, mode,
                         IF resolveSymlinks THEN existsSync(M, path)
                         ELSE [res |-> "ok", value |-> FALSE])

(***************************************************************************)
(* The FD table and the File objects behind it.                            *)
(***************************************************************************)

\* The most File objects a run opens.
MaxFiles == 1

\* file2fd: the descriptor a newly opened File is given.
file2fd(map) ==
    CHOOSE n \in 0..Cardinality(DOMAIN map) :
        n \notin DOMAIN map /\ \A k \in 0..(n - 1) : k \in DOMAIN map

\* fdMap.delete(fd)
fdMap_delete(map, fd) == [f \in DOMAIN map \ {fd} |-> map[f]]

\* The operations tried on a handle: read, stat, truncate and the creation
\* of a stream of either direction (with an options object).
HandleOps == {"read", "stat", "truncate", "createReadStream", "createWriteStream"}

\* A FileHandle method.  The stream creators build their stream and return
\* it; every other method goes to the File, which refuses once closed.
handleOp(file, op) ==
    IF op \in {"createReadStream", "createWriteStream"} THEN "ok"
    ELSE IF file.closed THEN "EBADF"
    ELSE IF op = "truncate" /\ ~isWriteable(file.flag) THEN "EPERM"
    ELSE "ok"

\* What File.truncate(0), then sync, leaves on the backend.
truncated(M, file) ==
    [M EXCEPT ![file.fs] = B_put(@, file.path, [@[file.path] EXCEPT !.data = <<>>])]

(***************************************************************************)
(* OpenSpec: open, close and handle operations over one mounted backend.   *)
(***************************************************************************)

e_path == <<"/", "e">>
n_path == <<"/", "n">>
d_path == <<"/", "d">>

\* The paths opened: an existing file, an absent file, a path under a file,
\* a path under nothing, a path under a directory without write permission.
OpenPaths == {e_path, n_path, <<"/", "e", "/", "n">>, <<"/", "x", "/", "n">>,
              <<"/", "d", "/", "n">>}

\* The modes the existing file starts with: 0o644 and 0o444.
ExistingModes == {420, 292}

\* The mode argument of an open: openSync's default F_OK, and 0o644.
OpenModes == {0, DefaultMode}

\* How a backend call that does I/O may end.
IOOutcomes == {"ok", "EIO"}

OpenMounts(mode) ==
    [mp \in MountPoints |->
        IF mp = Root
        THEN (Root :> Dir(493)) @@ (e_path :> File(mode, <<"x">>))
             @@ (d_path :> Dir(365))
        ELSE (Root :> Dir(493))]

VRan(op, surface, path, flag, res, file, existed, wasClosed) ==
    [op |-> op, surface |-> surface, path |-> path, flag |-> flag, res |-> res,
     file |-> file, existed |-> existed, wasClosed |-> wasClosed]

Idle == pend.op = "none"

\* open(path, flag, mode) / openSync(path, flag, mode)
Open(surface, path, flag, mode) ==
    /\ Len(files) < MaxFiles
    /\ surface = "async" => Idle
    /\ args = [surface |-> surface, flag |-> flag, mode |-> mode]
    /\ \E o \in {_open(surface, mounted, path, flag, mode, TRUE)},
          existed \in {Has(mounted, path)},
          h \in {Len(files) + 1},
          fd \in {file2fd(fdMap)} :
         IF o.res # "ok"
         THEN /\ mounted' = o.M
              /\ vlast' = VRan("open", surface, path, flag, o.res, 0, existed, FALSE)
              /\ UNCHANGED <<fdMap, files, pend>>
         ELSE /\ files' = Append(files, [fs |-> o.file.fs, path |-> o.file.path,
                                         flag |-> flag, fd |-> fd, closed |-> FALSE])
              /\ fdMap' = (fd :> h) @@ fdMap
              /\ IF o.truncate /\ surface = "async"
                 THEN /\ pend' = [op |-> "truncate", file |-> h]
                      /\ UNCHANGED <<mounted, vlast>>
                 ELSE /\ mounted' = IF o.truncate THEN truncated(o.M, o.file)
                                    ELSE o.M
                      /\ vlast' = VRan("open", surface, path, flag, "ok", h,
                                       existed, FALSE)
                      /\ UNCHANGED pend
    /\ UNCHANGED <<config, args, events>>
    /\ UNCHANGED <<mutexVars, overlayVars, objVars>>

\* _open: `await handle.truncate(0)` settles.
TruncateSettles(outcome) ==
    /\ pend.op = "truncate"
    /\ mounted' = IF outcome = "ok" THEN truncated(mounted, files[pend.file])
                  ELSE mounted
    /\ vlast' = VRan("open", "async", files[pend.file].path, files[pend.file].flag,
                     outcome, pend.file, TRUE, FALSE)
    /\ pend' = [op |-> "none"]
    /\ UNCHANGED <<fdMap, files, config, args, events>>
    /\ UNCHANGED <<mutexVars, overlayVars, objVars>>

\* FileHandle.close is called: `this.file.close()` is under way.
CloseStart(h) ==
    /\ Idle
    /\ h \in 1..Len(files)
    /\ pend' = [op |-> "close", file |-> h, wasClosed |-> files[h].closed]
    /\ UNCHANGED <<mounted, fdMap, files, config, args, events, vlast>>
    /\ UNCHANGED <<mutexVars, overlayVars, objVars>>

\* `this.file.close()` settles; the rest of FileHandle.close is queued.
FileCloseSettles(outcome) ==
    /\ pend.op = "close"
    /\ IF outcome = "ok" \/ files[pend.file].closed
       THEN /\ files' = [files EXCEPT ![pend.file].closed = TRUE]
            /\ pend' = [pend EXCEPT !.op = "closeResume"]
            /\ UNCHANGED vlast
       ELSE /\ vlast' = VRan("close", "async", files[pend.file].path,
                             files[pend.file].flag, outcome, pend.file, FALSE,
                             pend.wasClosed)
            /\ pend' = [op |-> "none"]
            /\ UNCHANGED files
    /\ UNCHANGED <<mounted, fdMap, config, args, events>>
    /\ UNCHANGED <<mutexVars, overlayVars, objVars>>

\* FileHandle.close resumes after its await: `fdMap.delete(this.fd)`.
CloseResume ==
    /\ pend.op = "closeResume"
    /\ fdMap' = fdMap_delete(fdMap, files[pend.file].fd)
    /\ vlast' = VRan("close", "async", files[pend.file].path, files[pend.file].flag,
                     "ok", pend.file, FALSE, pend.wasClosed)
    /\ pend' = [op |-> "none"]
    /\ UNCHANGED <<mounted, files, config, args, events>>
    /\ UNCHANGED <<mutexVars, overlayVars, objVars>>

\* Whether fd was the descriptor of a File that has been closed.
wasClosed(fd) == \E h \in 1..Len(files) : files[h].fd = fd /\ files[h].closed

\* closeSync(fd)
CloseSync(fd) ==
    /\ IF fd \notin DOMAIN fdMap
       THEN /\ vlast' = VRan("close", "sync", Root, "r", "EBADF", 0, FALSE,
                             wasClosed(fd))
            /\ UNCHANGED <<fdMap, files>>
       ELSE /\ files' = [files EXCEPT ![fdMap[fd]].closed = TRUE]
            /\ fdMap' = fdMap_delete(fdMap, fd)
            /\ vlast' = VRan("close", "sync", files[fdMap[fd]].path,
                             files[fdMap[fd]].flag, "ok", fdMap[fd], FALSE,
                             files[fdMap[fd]].closed)
    /\ UNCHANGED <<mounted, pend, config, args, events>>
    /\ UNCHANGED <<mutexVars, overlayVars, objVars>>

\* A method of the FileHandle over File h.
HandleOp(h, op) ==
    /\ Idle
    /\ h \in 1..Len(files)
    /\ mounted' = IF op = "truncate" /\ handleOp(files[h], op) = "ok"
                  THEN truncated(mounted, files[h]) ELSE mounted
    /\ vlast' = VRan(op, "async", files[h].path, files[h].flag,
                     handleOp(files[h], op), h, FALSE, files[h].closed)
    /\ UNCHANGED <<fdMap, files, pend, config, args, events>>
    /\ UNCHANGED <<mutexVars, overlayVars, objVars>>

\* fstatSync(fd)
FstatSync(fd) ==
    /\ vlast' = IF fd \notin DOMAIN fdMap
                THEN VRan("stat", "sync", Root, "r", "EBADF", 0, FALSE, wasClosed(fd))
                ELSE VRan("stat", "sync", files[fdMap[fd]].path, files[fdMap[fd]].flag,
                          handleOp(files[fdMap[fd]], "stat"), fdMap[fd], FALSE,
                          files[fdMap[fd]].closed)
    /\ UNCHANGED <<mounted, fdMap, files, pend, config, args, events>>
    /\ UNCHANGED <<mutexVars, overlayVars, objVars>>

OpenInit ==
    /\ mounted \in {OpenMounts(mode) : mode \in ExistingModes}
    /\ config \in [checkAccess : BOOLEAN, cred : Creds]
    /\ args \in [surface : Surfaces, flag : Flags, mode : OpenModes]
    /\ fdMap = <<>>
    /\ files = <<>>
    /\ pend = [op |-> "none"]
    /\ events = <<>>
    /\ vlast = VRan("none", "sync", Root, "r", "ok", 0, FALSE, FALSE)
    \* the mutex adapter and the overlay are not part of these runs
    /\ locks = <<>>
    /\ timers = <<>>
    /\ iter = <<>>
    /\ stream = <<>>
    /\ txn = <<>>
    /\ currentLock = 0
    /\ pc = [t \in Tasks |-> "idle"]
    /\ call = [t \in Tasks |-> "none"]
    /\ myLock = [t \in Tasks |-> 0]
    /\ result = [t \in Tasks |-> "none"]
    /\ x = 1
    /\ backendCalls = 0
    /\ upper = <<>>
    /\ lower = <<>>
    /\ deletedFiles = {}
    /\ deleteLog = <<>>
    /\ logWrites = <<>>
    /\ last = [op |-> "none"]

OpenNext ==
    \/ \E s \in Surfaces, p \in OpenPaths, f \in Flags, m \in OpenModes :
           Open(s, p, f, m)
    \/ \E o \in IOOutcomes : TruncateSettles(o)
    \/ \E fd \in 0..(MaxFiles - 1) : CloseSync(fd)

OpenSpec == OpenInit /\ [][OpenNext]_vars


(***************************************************************************)
(* Claims about open.                                                      *)
(***************************************************************************)

\* The step is a completed open of path, absent before the call.
OpenedAbsent(path) ==
    /\ vlast' # vlast
    /\ vlast'.op = "open"
    /\ vlast'.path = path
    /\ ~vlast'.existed

\* The step leaves the backends and the FD table as they were.
NothingCreated == mounted' = mounted /\ fdMap' = fdMap /\ files' = files

\* The step fails with errno e and creates nothing.
FailsWith(e) == vlast'.res = e /\ NothingCreated

\* The step creates an empty file at path on its backend, and nothing else.
CreatedFile(path) ==
    /\ vlast'.res = "ok"
    /\ mounted' = [mounted EXCEPT ![resolveMount(path).fs] =
                      B_put(@, resolveMount(path).path, File(args.mode, <<>>))]
    /\ fdMap'[files'[vlast'.file].fd] = vlast'.file
    /\ ~files'[vlast'.file].closed

\* The parent directory's node of path, and whether it is there.
ParentThere(path) ==
    B_exists(mounted[resolveMount(path).fs], dirname(resolveMount(path).path))
ParentNode(path) ==
    mounted[resolveMount(path).fs][dirname(resolveMount(path).path)]

\* C12 as stated: open of an absent path fails ENOENT when the flag is
\* neither writable nor appendable or is 'r+'; otherwise it needs the
\* parent to be a directory with write permission, failing ENOTDIR or
\* EACCES and creating nothing if it is not, and creating the file if it
\* is.
C12_AsStated ==
    [][\A path \in OpenPaths :
        OpenedAbsent(path) =>
            IF (~isWriteable(vlast'.flag) /\ ~isAppendable(vlast'.flag))
               \/ vlast'.flag = "r+"
            THEN FailsWith("ENOENT")
            ELSE IF /\ ParentThere(path)
                    /\ ParentNode(path).kind = "dir"
                    /\ hasAccess(ParentNode(path), W_OK, config.cred)
                 THEN CreatedFile(path)
                 ELSE FailsWith("ENOTDIR") \/ FailsWith("EACCES")]_vars

\* C12, amended: open of an absent path fails ENOENT when the flag is
\* neither writable nor appendable or is 'r+', and also when the parent is
\* absent; otherwise EACCES when the parent lacks write permission (looked
\* at by openSync always, by open only under config.checkAccess), then
\* ENOTDIR when the parent is no directory, creating nothing in each case;
\* otherwise the file is created empty on the backend and opened.
C12_OpenAbsent ==
    [][\A path \in OpenPaths :
        OpenedAbsent(path) =>
            IF (~isWriteable(vlast'.flag) /\ ~isAppendable(vlast'.flag))
               \/ vlast'.flag = "r+"
            THEN FailsWith("ENOENT")
            ELSE IF ~ParentThere(path) THEN FailsWith("ENOENT")
            ELSE IF /\ vlast'.surface = "sync" \/ config.checkAccess
                    /\ ~hasAccess(ParentNode(path), W_OK, config.cred)
                 THEN FailsWith("EACCES")
            ELSE IF ParentNode(path).kind # "dir" THEN FailsWith("ENOTDIR")
            ELSE CreatedFile(path)]_vars

\* An absent path was opened with a creating flag, and the file is there.
C12_Witness ==
    /\ vlast.op = "open"
    /\ ~vlast.existed
    /\ vlast.res = "ok"
    /\ isWriteable(vlast.flag) \/ isAppendable(vlast.flag)
    /\ Has(mounted, vlast.path)
    /\ vlast.file \in 1..Len(files)


\* The step is a completed open of path, present before the call, whose
\* backend I/O did not fail.
OpenedExisting(path) ==
    /\ vlast' # vlast
    /\ vlast'.op = "open"
    /\ vlast'.path = path
    /\ vlast'.existed
    /\ vlast'.res # "EIO"

\* C13: open of an existing path fails EACCES when the caller lacks the
\* access flag_to_mode(F) requires (where access is checked); otherwise
\* EEXIST when F is exclusive; otherwise it opens the file, of size 0 when
\* open returns if F truncates.  A refused open leaves the file as it was.
C13_OpenExisting ==
    [][\A path \in OpenPaths :
        OpenedExisting(path) =>
            IF /\ accessChecked(vlast'.surface)
               /\ ~hasAccess(Node(mounted, path), flagToMode(vlast'.flag), config.cred)
            THEN FailsWith("EACCES")
            ELSE IF isExclusive(vlast'.flag) THEN FailsWith("EEXIST")
            ELSE /\ vlast'.res = "ok"
                 /\ isTruncating(vlast'.flag) => Node(mounted', path).data = <<>>]_vars


(***************************************************************************)
(* HandleSpec: the life of a handle, from open to close and after.         *)
(***************************************************************************)

\* The flags handles are opened with.
HandleFlags == {"r", "w"}

HandleInit ==
    /\ mounted = OpenMounts(DefaultMode)
    /\ config \in [checkAccess : {TRUE}, cred : Creds]
    /\ args \in [surface : Surfaces, flag : HandleFlags, mode : {DefaultMode}]
    /\ fdMap = <<>>
    /\ files = <<>>
    /\ pend = [op |-> "none"]
    /\ events = <<>>
    /\ vlast = VRan("none", "sync", Root, "r", "ok", 0, FALSE, FALSE)
    \* the mutex adapter and the overlay are not part of these runs
    /\ locks = <<>>
    /\ timers = <<>>
    /\ iter = <<>>
    /\ stream = <<>>
    /\ txn = <<>>
    /\ currentLock = 0
    /\ pc = [t \in Tasks |-> "idle"]
    /\ call = [t \in Tasks |-> "none"]
    /\ myLock = [t \in Tasks |-> 0]
    /\ result = [t \in Tasks |-> "none"]
    /\ x = 1
    /\ backendCalls = 0
    /\ upper = <<>>
    /\ lower = <<>>
    /\ deletedFiles = {}
    /\ deleteLog = <<>>
    /\ logWrites = <<>>
    /\ last = [op |-> "none"]

HandleNext ==
    \/ \E s \in Surfaces, p \in {e_path, n_path}, f \in HandleFlags, m \in OpenModes :
           Open(s, p, f, m)
    \/ \E o \in IOOutcomes : TruncateSettles(o)
    \/ \E h \in 1..MaxFiles : CloseStart(h)
    \/ \E o \in IOOutcomes : FileCloseSettles(o)
    \/ CloseResume
    \/ \E fd \in 0..(MaxFiles - 1) : CloseSync(fd)
    \/ \E h \in 1..MaxFiles, op \in HandleOps : HandleOp(h, op)
    \/ \E fd \in 0..(MaxFiles - 1) : FstatSync(fd)

HandleSpec == HandleInit /\ [][HandleNext]_vars

\* C14: once a handle or descriptor is closed, every operation on it but
\* close fails EBADF, and close on it is a no-op that does not raise.
C14_ClosedHandle ==
    vlast.wasClosed =>
        IF vlast.op = "close" THEN vlast.res = "ok" ELSE vlast.res = "EBADF"

\* C15: every descriptor of the FD table refers to a File that is open.
C15_FdsOpen ==
    \A fd \in DOMAIN fdMap : ~files[fdMap[fd]].closed


(***************************************************************************)
(* RealpathSpec: symbolic links are made, and paths resolved through them. *)
(***************************************************************************)

a_path == <<"/", "a">>
b_path == <<"/", "b">>
x_path == <<"/", "x">>
df_path == <<"/", "d", "/", "f">>

\* The paths a link is made at, and what it is made to point to: the two
\* links, a directory, an absent path, and a relative name.
LinkPaths == {a_path, b_path}
LinkTargets == {a_path, b_path, d_path, x_path, <<"b">>}

\* The paths resolved: the links, a file, a file through a link, an absent
\* path (also written with a doubled separator), an absent path through a
\* link.
RealPaths == {a_path, b_path, df_path, <<"/", "a", "/", "f">>, x_path,
              <<"/", "/", "x">>, <<"/", "a", "/", "x">>}

RealMounts ==
    [mp \in MountPoints |->
        IF mp = Root
        THEN (Root :> Dir(493)) @@ (d_path :> Dir(493))
             @@ (df_path :> File(DefaultMode, <<"x">>))
        ELSE (Root :> Dir(493))]

RRan(op, surface, path, res, real) ==
    [op |-> op, surface |-> surface, path |-> path, res |-> res, real |-> real]

\* exists(path)
exists_real(M, real) ==
    IF real.res = "ok" THEN [res |-> "ok", value |-> Has(M, real.path)]
    ELSE IF real.res = "ENOENT" THEN [res |-> "ok", value |-> FALSE]
    ELSE [res |-> real.res]

vfs_exists(M, path) == exists_real(M, realpath(M, normalizePath(path), {}))

\* symlink(target, path), once exists(path) and the open of path are known.
symlink_made(M, target, path, ex, o) ==
    IF ex.res # "ok" THEN Failed(M, ex.res)
    ELSE IF ex.value THEN Failed(M, "EEXIST")
    ELSE IF o.res # "ok" THEN Failed(M, o.res)
    ELSE [res |-> "ok",
          M |-> [o.M EXCEPT ![o.file.fs] = B_put(@, o.file.path, Link(target))]]

\* symlink(target, path)
symlink(M, target, path) ==
    symlink_made(M, target, path, vfs_exists(M, path),
                 _open("async", M, path, "w+", DefaultMode, FALSE))

Symlink(target, path) ==
    /\ \E s \in {symlink(mounted, target, path)} :
          /\ mounted' = s.M
          /\ vlast' = RRan("symlink", "async", path, s.res, target)
    /\ UNCHANGED <<fdMap, files, pend, config, args, events>>
    /\ UNCHANGED <<mutexVars, overlayVars, objVars>>

\* realpath(path) / realpathSync(path)
Realpath(surface, path) ==
    /\ \E r \in {IF surface = "async" THEN realpath(mounted, normalizePath(path), {})
                 ELSE realpathSync(mounted, normalizePath(path), {})} :
          vlast' = RRan("realpath", surface, path, r.res,
                        IF r.res = "ok" THEN r.path ELSE <<>>)
    /\ UNCHANGED <<mounted, fdMap, files, pend, config, args, events>>
    /\ UNCHANGED <<mutexVars, overlayVars, objVars>>

\* readlink(path) / readlinkSync(path)
Readlink(surface, path) ==
    /\ \E r \in {IF surface = "async" THEN readlink(mounted, normalizePath(path))
                 ELSE readlinkSync(mounted, path)} :
          vlast' = RRan("readlink", surface, path, r.res,
                        IF r.res = "ok" THEN r.data ELSE <<>>)
    /\ UNCHANGED <<mounted, fdMap, files, pend, config, args, events>>
    /\ UNCHANGED <<mutexVars, overlayVars, objVars>>

RealpathInit ==
    /\ mounted = RealMounts
    /\ config \in [checkAccess : BOOLEAN, cred : Creds]
    /\ args = [surface |-> "sync", flag |-> "r", mode |-> 0]
    /\ fdMap = <<>>
    /\ files = <<>>
    /\ pend = [op |-> "none"]
    /\ events = <<>>
    /\ vlast = RRan("none", "sync", Root, "ok", <<>>)
    \* the mutex adapter and the overlay are not part of these runs
    /\ locks = <<>>
    /\ timers = <<>>
    /\ iter = <<>>
    /\ stream = <<>>
    /\ txn = <<>>
    /\ currentLock = 0
    /\ pc = [t \in Tasks |-> "idle"]
    /\ call = [t \in Tasks |-> "none"]
    /\ myLock = [t \in Tasks |-> 0]
    /\ result = [t \in Tasks |-> "none"]
    /\ x = 1
    /\ backendCalls = 0
    /\ upper = <<>>
    /\ lower = <<>>
    /\ deletedFiles = {}
    /\ deleteLog = <<>>
    /\ logWrites = <<>>
    /\ last = [op |-> "none"]

RealpathNext ==
    \/ \E t \in LinkTargets, p \in LinkPaths : Symlink(t, p)
    \/ \E s \in Surfaces, p \in RealPaths : Realpath(s, p)
    \/ \E s \in Surfaces, p \in RealPaths : Readlink(s, p)

RealpathSpec == RealpathInit /\ [][RealpathNext]_vars

\* The path and its ancestors below the root.
Components(q) ==
    {SubSeq(q, 1, i) : i \in {j \in 2..Len(q) : j = Len(q) \/ q[j + 1] = "/"}}

\* Whether the node at q is a symbolic link.
IsLink(q) == Has(mounted, q) /\ Node(mounted, q).kind = "link"

\* readlink(q), on the surface realpath was called on.
ReadlinkOn(surface, q) ==
    IF surface = "async" THEN readlink(mounted, q) ELSE readlinkSync(mounted, q)

\* C16: whenever realpath(P) returns Q, Q is absolute and normalized, no
\* component of Q is a symbolic link, and readlink(Q) fails with EINVAL
\* (a Q that names nothing may make it fail with ENOENT instead).
C16_RealIsCanonical ==
    (vlast.op = "realpath" /\ vlast.res = "ok") =>
        /\ vlast.real[1] = "/"
        /\ normalizePath(vlast.real) = vlast.real
        /\ \A q \in Components(vlast.real) : ~IsLink(q)
        /\ ReadlinkOn(vlast.surface, vlast.real).res
               \in (IF Has(mounted, vlast.real) THEN {"EINVAL"}
                    ELSE {"EINVAL", "ENOENT"})

\* C17: realpath of a path whose node does not exist (and that has no link
\* on the way) returns the normalized input path, on both surfaces.
C17_MissingReturnsInput ==
    (/\ vlast.op = "realpath"
     /\ ~Has(mounted, normalizePath(vlast.path))
     /\ \A q \in Components(normalizePath(vlast.path)) : ~IsLink(q))
    => (vlast.res = "ok" /\ vlast.real = normalizePath(vlast.path))

\* The link at q points to itself.
SelfLink(q) ==
    IsLink(q) /\ resolve(dirname(q), Node(mounted, q).data) = q

\* C18: realpath ends on every input, and a link that leads back to itself
\* makes it fail with ELOOP (unless the caller is refused access first).
C18_Terminates ==
    vlast.op = "realpath" =>
        /\ vlast.res \notin {"unsettled", "RangeError"}
        /\ (SelfLink(normalizePath(vlast.path)) /\ vlast.res # "EACCES")
              => vlast.res = "ELOOP"


(***************************************************************************)
(* MoveSpec: rename and link over two mounted backends.                    *)
(***************************************************************************)

\* stat / statSync, once the path is resolved.
stat_real(surface, M, real) ==
    IF real.res # "ok" THEN [res |-> real.res]
    ELSE IF ~Has(M, real.path) THEN [res |-> "ENOENT"]
    ELSE IF accessChecked(surface) /\ ~hasAccess(Node(M, real.path), R_OK, config.cred)
         THEN [res |-> "EACCES"]
    ELSE [res |-> "ok", node |-> Node(M, real.path)]

\* statSync: `existsSync(path) ? realpathSync(path) : path`
statSync_exists(M, path, ex) ==
    IF ex.res # "ok" THEN [res |-> ex.res]
    ELSE stat_real("sync", M, IF ex.value THEN realpathSync(M, path, {})
                              ELSE [res |-> "ok", path |-> path])

\* stat(path) / statSync(path)
vfs_stat(surface, M, path) ==
    IF surface = "async" THEN stat_real(surface, M, realpath(M, path, {}))
    ELSE statSync_exists(M, path, existsSync(M, path))

\* unlink / unlinkSync, on the backend r the path resolves to.
unlink_at(surface, M, r) ==
    IF accessChecked(surface) /\ ~B_exists(M[r.fs], r.path) THEN Failed(M, "ENOENT")
    ELSE IF accessChecked(surface) /\ ~hasAccess(M[r.fs][r.path], W_OK, config.cred)
         THEN Failed(M, "EACCES")
    ELSE IF B_unlinkErr(M[r.fs], r.path) # "ok"
         THEN Failed(M, B_unlinkErr(M[r.fs], r.path))
    ELSE [res |-> "ok", M |-> [M EXCEPT ![r.fs] = B_remove(@, r.path)]]

\* unlink(path) / unlinkSync(path)
vfs_unlink(surface, M, path) == unlink_at(surface, M, resolveMount(path))

\* How a rename ended: the mount table it leaves, what emitChange emitted,
\* and whether the backend's rename or a copy did the work.
Renamed(res, M, evs, how) == [res |-> res, M |-> M, events |-> evs, how |-> how]

\* The copy's last step: unlink(oldPath), then emitChange('rename', oldPath).
copy_unlink(oldPath, change, un) ==
    IF un.res # "ok" THEN Renamed(un.res, un.M, <<change>>, "copy")
    ELSE Renamed("ok", un.M,
                 <<change, <<"rename", oldPath>>, <<"rename", oldPath>>>>, "copy")

\* The copy's second step: writeFile(newPath, data).  FileHandle.writeFile
\* emits 'change' for the File's own path, writeFileSync for newPath.
copy_write(surface, M, oldPath, newPath, data, wr) ==
    IF wr.res # "ok" THEN Renamed(wr.res, M, <<>>, "copy")
    ELSE copy_unlink(oldPath,
             <<"change", IF surface = "async" THEN wr.file.path ELSE newPath>>,
             vfs_unlink(surface,
                 [wr.M EXCEPT ![wr.file.fs] =
                     B_put(@, wr.file.path, [@[wr.file.path] EXCEPT !.data = data])],
                 oldPath))

\* The copy's first step: readFile(oldPath).
copy_read(surface, M, oldPath, newPath, rd) ==
    IF rd.res # "ok" THEN Renamed(rd.res, M, <<>>, "copy")
    ELSE copy_write(surface, M, oldPath, newPath, M[rd.file.fs][rd.file.path].data,
                    _open(surface, M, newPath, "w+", DefaultMode, TRUE))

\* writeFile(newPath, readFile(oldPath)); unlink(oldPath)
copy(surface, M, oldPath, newPath) ==
    copy_read(surface, M, oldPath, newPath,
              _open(surface, M, oldPath, "r", DefaultMode, TRUE))

\* src.fs.rename(src.path, dst.path), and the events that follow it.
rename_backend(M, src, dst, evs) ==
    IF B_renameErr(M[src.fs], src.path, dst.path) # "ok"
    THEN Renamed(B_renameErr(M[src.fs], src.path, dst.path), M, <<>>, "rename")
    ELSE Renamed("ok", [M EXCEPT ![src.fs] = B_rename(@, src.path, dst.path)],
                 evs, "rename")

\* renameSync: `oldMount === newMount`.  Each resolveMount call builds a
\* new object, so the two are never the same object.
sameMount(oldMount, newMount) == FALSE

\* rename(oldPath, newPath), once stat(dirname(oldPath)) is known.
rename_checked(M, oldPath, newPath, st) ==
    IF config.checkAccess /\ st.res # "ok" THEN Renamed(st.res, M, <<>>, "none")
    ELSE IF config.checkAccess /\ ~hasAccess(st.node, W_OK, config.cred)
         THEN Renamed("EACCES", M, <<>>, "none")
    ELSE IF resolveMount(oldPath).mountPoint = resolveMount(newPath).mountPoint
         THEN rename_backend(M, resolveMount(oldPath), resolveMount(newPath),
                             <<<<"rename", oldPath>>, <<"change", newPath>>>>)
    ELSE copy("async", M, oldPath, newPath)

\* renameSync(oldPath, newPath), once statSync(dirname(oldPath)) is known.
renameSync_checked(M, oldPath, newPath, st) ==
    IF st.res # "ok" THEN Renamed(st.res, M, <<>>, "none")
    ELSE IF ~hasAccess(st.node, W_OK, config.cred)
         THEN Renamed("EACCES", M, <<>>, "none")
    ELSE IF sameMount(resolveMount(oldPath), resolveMount(newPath))
         THEN rename_backend(M, resolveMount(oldPath), resolveMount(newPath),
                             <<<<"rename", oldPath>>>>)
    ELSE copy("sync", M, oldPath, newPath)

\* rename(oldPath, newPath) / renameSync(oldPath, newPath)
vfs_rename(surface, M, oldPath, newPath) ==
    IF surface = "async"
    THEN rename_checked(M, oldPath, newPath, vfs_stat(surface, M, dirname(oldPath)))
    ELSE renameSync_checked(M, oldPath, newPath, vfs_stat(surface, M, dirname(oldPath)))

\* A backend's link(target, link): the new name takes the target's node.
B_link(M, fs, target, linkPath) ==
    IF ~B_exists(M[fs], target) THEN Failed(M, "ENOENT")
    ELSE IF B_newErr(M[fs], linkPath) # "ok" THEN Failed(M, B_newErr(M[fs], linkPath))
    ELSE [res |-> "ok", M |-> [M EXCEPT ![fs] = B_put(@, linkPath, @[target])]]

\* link / linkSync: `fs != link.fs`
link_crossDevice(t, l) == t.fs # l.fs

\* link(targetPath, linkPath), on the backends t and l the paths resolve to.
link_at(M, targetPath, linkPath, t, l) ==
    IF link_crossDevice(t, l) THEN Failed(M, "EXDEV")
    ELSE IF ~config.checkAccess THEN B_link(M, t.fs, t.path, l.path)
    ELSE IF ~B_exists(M[t.fs], dirname(targetPath)) THEN Failed(M, "ENOENT")
    ELSE IF ~hasAccess(M[t.fs][dirname(targetPath)], R_OK, config.cred)
         THEN Failed(M, "EACCES")
    ELSE IF vfs_stat("async", M, dirname(linkPath)).res # "ok"
         THEN Failed(M, vfs_stat("async", M, dirname(linkPath)).res)
    ELSE IF ~hasAccess(vfs_stat("async", M, dirname(linkPath)).node, W_OK, config.cred)
         THEN Failed(M, "EACCES")
    ELSE IF ~B_exists(M[t.fs], t.path) THEN Failed(M, "ENOENT")
    ELSE IF ~hasAccess(M[t.fs][t.path], R_OK, config.cred) THEN Failed(M, "EACCES")
    ELSE B_link(M, t.fs, t.path, l.path)

\* linkSync(targetPath, linkPath), once the two statSync calls are known.
linkSync_at(M, targetPath, linkPath, t, l, st, sl) ==
    IF st.res # "ok" THEN Failed(M, st.res)
    ELSE IF ~hasAccess(st.node, R_OK, config.cred) THEN Failed(M, "EACCES")
    ELSE IF sl.res # "ok" THEN Failed(M, sl.res)
    ELSE IF ~hasAccess(sl.node, W_OK, config.cred) THEN Failed(M, "EACCES")
    ELSE IF link_crossDevice(t, l) THEN Failed(M, "EXDEV")
    ELSE IF ~B_exists(M[t.fs], t.path) THEN Failed(M, "ENOENT")
    ELSE IF ~hasAccess(M[t.fs][t.path], W_OK, config.cred) THEN Failed(M, "EACCES")
    ELSE B_link(M, t.fs, t.path, linkPath)

\* link(targetPath, linkPath) / linkSync(targetPath, linkPath)
vfs_link(surface, M, targetPath, linkPath) ==
    IF surface = "async"
    THEN link_at(M, targetPath, linkPath, resolveMount(targetPath),
                 resolveMount(linkPath))
    ELSE linkSync_at(M, targetPath, linkPath, resolveMount(targetPath),
                     resolveMount(linkPath),
                     vfs_stat("sync", M, dirname(targetPath)),
                     vfs_stat("sync", M, dirname(linkPath)))

f_path == <<"/", "f">>
h_path == <<"/", "h">>
mg_path == <<"/", "m", "/", "g">>
mh_path == <<"/", "m", "/", "h">>

\* The files renamed and linked, the names a rename gives, and the names a
\* link gives: one of each mount, and one under a directory that is not
\* there.
MovePaths == {f_path, h_path, mg_path, mh_path}
NewNames == {h_path, mh_path}
Linked == {f_path, mg_path}
LinkNames == {h_path, mh_path, <<"/", "m", "/", "s", "/", "h">>}

MoveMounts ==
    [mp \in MountPoints |->
        IF mp = Root
        THEN (Root :> Dir(493)) @@ (f_path :> File(DefaultMode, <<"x">>))
        ELSE (Root :> Dir(493)) @@ (<<"/", "g">> :> File(DefaultMode, <<"y">>))]

MRan(op, surface, path, to, res, how, data) ==
    [op |-> op, surface |-> surface, path |-> path, to |-> to, res |-> res,
     how |-> how, data |-> data]

\* rename(oldPath, newPath) / renameSync(oldPath, newPath)
VfsRename(surface, oldPath, newPath) ==
    /\ oldPath # newPath
    /\ \E r \in {vfs_rename(surface, mounted, oldPath, newPath)} :
          /\ mounted' = r.M
          /\ events' = r.events
          /\ vlast' = MRan("rename", surface, oldPath, newPath, r.res, r.how,
                           IF Has(mounted, oldPath) THEN Node(mounted, oldPath).data
                           ELSE <<>>)
    /\ UNCHANGED <<fdMap, files, pend, config, args>>
    /\ UNCHANGED <<mutexVars, overlayVars, objVars>>

\* link(targetPath, linkPath) / linkSync(targetPath, linkPath)
VfsLink(surface, targetPath, linkPath) ==
    /\ \E r \in {vfs_link(surface, mounted, targetPath, linkPath)} :
          /\ mounted' = r.M
          /\ vlast' = MRan("link", surface, targetPath, linkPath, r.res, "none", <<>>)
    /\ events' = <<>>
    /\ UNCHANGED <<fdMap, files, pend, config, args>>
    /\ UNCHANGED <<mutexVars, overlayVars, objVars>>

MoveInit ==
    /\ mounted = MoveMounts
    /\ config \in [checkAccess : BOOLEAN, cred : Creds]
    /\ args = [surface |-> "sync", flag |-> "r", mode |-> 0]
    /\ fdMap = <<>>
    /\ files = <<>>
    /\ pend = [op |-> "none"]
    /\ events = <<>>
    /\ vlast = MRan("none", "sync", Root, Root, "ok", "none", <<>>)
    \* the mutex adapter and the overlay are not part of these runs
    /\ locks = <<>>
    /\ timers = <<>>
    /\ iter = <<>>
    /\ stream = <<>>
    /\ txn = <<>>
    /\ currentLock = 0
    /\ pc = [t \in Tasks |-> "idle"]
    /\ call = [t \in Tasks |-> "none"]
    /\ myLock = [t \in Tasks |-> 0]
    /\ result = [t \in Tasks |-> "none"]
    /\ x = 1
    /\ backendCalls = 0
    /\ upper = <<>>
    /\ lower = <<>>
    /\ deletedFiles = {}
    /\ deleteLog = <<>>
    /\ logWrites = <<>>
    /\ last = [op |-> "none"]

MoveNext ==
    \/ \E s \in Surfaces, old \in MovePaths, new \in NewNames : VfsRename(s, old, new)
    \/ \E s \in Surfaces, t \in Linked, l \in LinkNames : VfsLink(s, t, l)

MoveSpec == MoveInit /\ [][MoveNext]_vars

\* The events that emitChange emitted during the last operation.
Emitted == {events[i] : i \in 1..Len(events)}

\* C19: a successful rename is delegated to the backend's rename when both
\* paths are on one mount and is a copy followed by an unlink otherwise;
\* either way the old path is gone, the new path holds the old content,
\* and a 'rename' event for the old path and a 'change' event for the new
\* path were emitted.
C19_Rename ==
    (vlast.op = "rename" /\ vlast.res = "ok") =>
        /\ vlast.how = IF resolveMount(vlast.path).mountPoint
                          = resolveMount(vlast.to).mountPoint
                       THEN "rename" ELSE "copy"
        /\ ~Has(mounted, vlast.path)
        /\ Has(mounted, vlast.to)
        /\ Node(mounted, vlast.to).data = vlast.data
        /\ <<"rename", vlast.path>> \in Emitted
        /\ <<"change", vlast.to>> \in Emitted

\* The step is a completed link of a path of one mount under a name of
\* another.
LinkedAcross ==
    /\ vlast' # vlast
    /\ vlast'.op = "link"
    /\ resolveMount(vlast'.path).fs # resolveMount(vlast'.to).fs

\* C20: link across two mounted backends fails with EXDEV and changes
\* neither backend.
C20_LinkAcross ==
    [][LinkedAcross => (vlast'.res = "EXDEV" /\ mounted' = mounted)]_vars


(***************************************************************************)
(* ReaddirSpec: backends are mounted and unmounted, directories listed.    *)
(***************************************************************************)

ab_mount == <<"/", "a", "/", "b">>
ab_path == <<"/", "a", "b">>
m_path == <<"/", "m">>

\* The mount points used: under the root, under /a, and beside /a.
Mountable == {m_path, ab_mount, ab_path}

\* The directories listed.
ListedPaths == {Root, a_path}

\* resolveMount over the mount table M.
resolveMountIn(M, p) ==
    LET mp == CHOOSE m \in DOMAIN M :
                  /\ InMount(m, p)
                  /\ \A n \in DOMAIN M : InMount(n, p) => Len(n) <= Len(m)
    IN  [fs |-> mp,
         path |-> IF mp = Root THEN p
                  ELSE IF p = mp THEN Root
                  ELSE SubSeq(p, Len(mp) + 1, Len(p)),
         mountPoint |-> mp]

\* mount.startsWith(path)
startsWith(str, prefix) ==
    Len(str) >= Len(prefix) /\ SubSeq(str, 1, Len(prefix)) = prefix

\* readdirSync's loop over mounts.keys(): the entries it pushes.
mountEntries(M, path) ==
    {e \in {SubSeq(mp, Len(path) + 1, Len(mp)) :
               mp \in {m \in DOMAIN M : startsWith(m, path)}} :
        e # <<>> /\ \A i \in 1..Len(e) : e[i] # "/"}

\* The listing of readdirSync: how often each name occurs in the array.
readdirSync_listed(fs, resolved, pushed) ==
    [name \in B_entries(fs, resolved) \cup pushed |->
        (IF name \in B_entries(fs, resolved) THEN 1 ELSE 0)
        + (IF name \in pushed THEN 1 ELSE 0)]

\* readdir / readdirSync on the backend r of a path without links.
readdir_at(surface, M, path, r) ==
    IF ~B_exists(M[r.fs], r.path) THEN [res |-> "ENOENT"]
    ELSE IF accessChecked(surface) /\ ~hasAccess(M[r.fs][r.path], R_OK, config.cred)
         THEN [res |-> "EACCES"]
    ELSE IF B_readdirErr(M[r.fs], r.path) # "ok"
         THEN [res |-> B_readdirErr(M[r.fs], r.path)]
    ELSE [res |-> "ok",
          entries |-> IF surface = "sync"
                      THEN readdirSync_listed(M[r.fs], r.path, mountEntries(M, path))
                      ELSE readdirSync_listed(M[r.fs], r.path, {})]

\* readdir(path) / readdirSync(path)
vfs_readdir(surface, M, path) ==
    readdir_at(surface, M, path, resolveMountIn(M, path))

\* mount(mountPoint, fs): a new, empty backend is mounted.
Mount(mp) ==
    /\ mp \notin DOMAIN mounted
    /\ mounted' = (mp :> (Root :> Dir(493))) @@ mounted
    /\ vlast' = [op |-> "mount", surface |-> "sync", path |-> mp, res |-> "ok",
                 entries |-> <<>>]
    /\ UNCHANGED <<fdMap, files, pend, config, args, events>>
    /\ UNCHANGED <<mutexVars, overlayVars, objVars>>

\* umount(mountPoint)
Umount(mp) ==
    /\ mp \in DOMAIN mounted
    /\ mounted' = [m \in DOMAIN mounted \ {mp} |-> mounted[m]]
    /\ vlast' = [op |-> "umount", surface |-> "sync", path |-> mp, res |-> "ok",
                 entries |-> <<>>]
    /\ UNCHANGED <<fdMap, files, pend, config, args, events>>
    /\ UNCHANGED <<mutexVars, overlayVars, objVars>>

\* readdir(path) / readdirSync(path)
Readdir(surface, path) ==
    /\ \E r \in {vfs_readdir(surface, mounted, path)} :
          vlast' = [op |-> "readdir", surface |-> surface, path |-> path,
                    res |-> r.res,
                    entries |-> IF r.res = "ok" THEN r.entries ELSE <<>>]
    /\ UNCHANGED <<mounted, fdMap, files, pend, config, args, events>>
    /\ UNCHANGED <<mutexVars, overlayVars, objVars>>

ReaddirInit ==
    /\ mounted \in {(Root :> rootfs) : rootfs \in
                      {(Root :> Dir(493)) @@ (a_path :> Dir(493))
                          @@ (<<"/", "a", "/", "f">> :> File(DefaultMode, <<"x">>)),
                       (Root :> Dir(493)) @@ (a_path :> Dir(493))
                          @@ (m_path :> Dir(493))
                          @@ (<<"/", "a", "/", "f">> :> File(DefaultMode, <<"x">>))}}
    /\ config \in [checkAccess : BOOLEAN, cred : Creds]
    /\ args = [surface |-> "sync", flag |-> "r", mode |-> 0]
    /\ fdMap = <<>>
    /\ files = <<>>
    /\ pend = [op |-> "none"]
    /\ events = <<>>
    /\ vlast = [op |-> "none", surface |-> "sync", path |-> Root, res |-> "ok",
                entries |-> <<>>]
    \* the mutex adapter and the overlay are not part of these runs
    /\ locks = <<>>
    /\ timers = <<>>
    /\ iter = <<>>
    /\ stream = <<>>
    /\ txn = <<>>
    /\ currentLock = 0
    /\ pc = [t \in Tasks |-> "idle"]
    /\ call = [t \in Tasks |-> "none"]
    /\ myLock = [t \in Tasks |-> 0]
    /\ result = [t \in Tasks |-> "none"]
    /\ x = 1
    /\ backendCalls = 0
    /\ upper = <<>>
    /\ lower = <<>>
    /\ deletedFiles = {}
    /\ deleteLog = <<>>
    /\ logWrites = <<>>
    /\ last = [op |-> "none"]

ReaddirNext ==
    \/ \E mp \in Mountable : Mount(mp)
    \/ \E mp \in Mountable : Umount(mp)
    \/ \E s \in Surfaces, p \in ListedPaths : Readdir(s, p)

ReaddirSpec == ReaddirInit /\ [][ReaddirNext]_vars

\* The names readdir(P) is to list: the backend's entries of P, and the
\* basenames of the mount points whose parent directory is P.
Expected(path) ==
    B_entries(mounted[resolveMountIn(mounted, path).fs],
              resolveMountIn(mounted, path).path)
    \cup {basename(mp) : mp \in {m \in DOMAIN mounted : m # Root /\ dirname(m) = path}}

\* C21: a successful readdir(P) lists each expected name once, and nothing
\* else.
C21_Readdir ==
    (vlast.op = "readdir" /\ vlast.res = "ok") =>
        /\ DOMAIN vlast.entries = Expected(vlast.path)
        /\ \A name \in DOMAIN vlast.entries : vlast.entries[name] = 1


(***************************************************************************)
(* MkdirSpec: mkdir(path, {recursive: true, mode}) on the root mount and   *)
(* on the mount at /m.                                                     *)
(***************************************************************************)

d_dir == <<"/", "d">>
de_dir == <<"/", "d", "/", "e">>
md_dir == <<"/", "m", "/", "d">>
mde_dir == <<"/", "m", "/", "d", "/", "e">>

MkdirPaths == {d_dir, de_dir, md_dir, mde_dir}

\* 0o755 and 0o700
MkdirModes == {493, 448}

\* mkdir's first loop: the directories the backend lacks, topmost first.
RECURSIVE mkdir_dirs(_, _)
mkdir_dirs(fs, dir) ==
    IF B_exists(fs, dir) THEN <<>>
    ELSE mkdir_dirs(fs, dirname(dir)) \o <<dir>>

\* mkdir's second loop, from the i-th directory on.
RECURSIVE mkdir_loop(_, _, _, _, _, _)
mkdir_loop(surface, M, r, dirs, mode, i) ==
    IF i > Len(dirs) THEN [res |-> "ok", M |-> M]
    ELSE IF accessChecked(surface)
            /\ ~hasAccess(M[r.fs][dirname(dirs[i])], W_OK, config.cred)
         THEN Failed(M, "EACCES")
    ELSE IF B_newErr(M[r.fs], dirs[i]) # "ok"
         THEN Failed(M, B_newErr(M[r.fs], dirs[i]))
    ELSE mkdir_loop(surface, [M EXCEPT ![r.fs] = B_put(@, dirs[i], Dir(mode))],
                    r, dirs, mode, i + 1)

\* mkdir, recursive, once the directories to make are known: it returns
\* dirs[0].
mkdir_made(made, dirs) ==
    IF made.res # "ok" THEN [res |-> made.res, M |-> made.M, ret |-> "undefined"]
    ELSE [res |-> "ok", M |-> made.M,
          ret |-> IF dirs = <<>> THEN "undefined" ELSE dirs[1]]

mkdir_recursive(surface, M, r, dirs, mode) ==
    mkdir_made(mkdir_loop(surface, M, r, dirs, mode, 1), dirs)

\* mkdir(path, {recursive: true, mode}) / mkdirSync, path resolved to real.
mkdir_real(surface, M, real, mode) ==
    IF real.res # "ok" THEN [res |-> real.res, M |-> M, ret |-> "undefined"]
    ELSE mkdir_recursive(surface, M, resolveMount(real.path),
                         mkdir_dirs(M[resolveMount(real.path).fs],
                                    resolveMount(real.path).path),
                         mode)

mkdirSync_exists(M, path, mode, ex) ==
    IF ex.res # "ok" THEN [res |-> ex.res, M |-> M, ret |-> "undefined"]
    ELSE mkdir_real("sync", M, IF ex.value THEN realpathSync(M, path, {})
                               ELSE [res |-> "ok", path |-> path], mode)

vfs_mkdir(surface, M, path, mode) ==
    IF surface = "async" THEN mkdir_real(surface, M, realpath(M, path, {}), mode)
    ELSE mkdirSync_exists(M, path, mode, existsSync(M, path))

\* mkdir(path, {recursive: true, mode}) / mkdirSync
VfsMkdir(surface, path, mode) ==
    /\ \E r \in {vfs_mkdir(surface, mounted, path, mode)} :
          /\ mounted' = r.M
          /\ vlast' = [op |-> "mkdir", surface |-> surface, path |-> path,
                       mode |-> mode, res |-> r.res, ret |-> r.ret,
                       before |-> mounted]
    /\ UNCHANGED <<fdMap, files, pend, config, args, events>>
    /\ UNCHANGED <<mutexVars, overlayVars, objVars>>

\* rmdir(path) / rmdirSync(path) of an empty directory
VfsRmdir(path) ==
    /\ Has(mounted, path)
    /\ B_rmdirErr(mounted[resolveMount(path).fs], resolveMount(path).path) = "ok"
    /\ mounted' = [mounted EXCEPT ![resolveMount(path).fs] =
                       B_remove(@, resolveMount(path).path)]
    /\ vlast' = [op |-> "rmdir", surface |-> "sync", path |-> path, mode |-> 0,
                 res |-> "ok", ret |-> "undefined", before |-> mounted]
    /\ UNCHANGED <<fdMap, files, pend, config, args, events>>
    /\ UNCHANGED <<mutexVars, overlayVars, objVars>>

MkdirInit ==
    /\ mounted = (Root :> ((Root :> Dir(493)) @@ (a_path :> Dir(493))))
                 @@ (m_path :> (Root :> Dir(493)))
    /\ config \in [checkAccess : BOOLEAN, cred : Creds]
    /\ args = [surface |-> "sync", flag |-> "r", mode |-> 0]
    /\ fdMap = <<>>
    /\ files = <<>>
    /\ pend = [op |-> "none"]
    /\ events = <<>>
    /\ vlast = [op |-> "none"]
    \* the mutex adapter and the overlay are not part of these runs
    /\ locks = <<>>
    /\ timers = <<>>
    /\ iter = <<>>
    /\ stream = <<>>
    /\ txn = <<>>
    /\ currentLock = 0
    /\ pc = [t \in Tasks |-> "idle"]
    /\ call = [t \in Tasks |-> "none"]
    /\ myLock = [t \in Tasks |-> 0]
    /\ result = [t \in Tasks |-> "none"]
    /\ x = 1
    /\ backendCalls = 0
    /\ upper = <<>>
    /\ lower = <<>>
    /\ deletedFiles = {}
    /\ deleteLog = <<>>
    /\ logWrites = <<>>
    /\ last = [op |-> "none"]

MkdirNext ==
    \/ \E s \in Surfaces, p \in MkdirPaths, mode \in MkdirModes : VfsMkdir(s, p, mode)
    \/ \E p \in MkdirPaths : VfsRmdir(p)

MkdirSpec == MkdirInit /\ [][MkdirNext]_vars

\* path and its ancestors below the root, as the caller names them.
RECURSIVE UpTo(_)
UpTo(path) == IF path = Root THEN {} ELSE {path} \cup UpTo(dirname(path))

\* The directories a recursive mkdir of vlast.path had to make.
Missing == {q \in UpTo(vlast.path) : ~Has(vlast.before, q)}

\* The caller's name of path p of the backend mounted at mp.
UserPath(mp, p) == IF mp = Root THEN p ELSE IF p = Root THEN mp ELSE mp \o p

\* C22: a successful mkdir(P, {recursive: true, mode: m}) makes the missing
\* ancestors and P, each a directory of mode m, leaves every other node as it
\* was, and returns the caller's path of the first directory made (undefined
\* when none was).
C22_MkdirRecursive ==
    (vlast.op = "mkdir" /\ vlast.res = "ok") =>
        /\ \A q \in Missing : Has(mounted, q) /\ Node(mounted, q) = Dir(vlast.mode)
        /\ \A mp \in DOMAIN mounted : \A p \in DOMAIN mounted[mp] :
              IF p \in DOMAIN vlast.before[mp]
              THEN mounted[mp][p] = vlast.before[mp][p]
              ELSE UserPath(mp, p) \in Missing
        /\ \A mp \in DOMAIN mounted : DOMAIN vlast.before[mp] \subseteq DOMAIN mounted[mp]
        /\ vlast.ret = IF Missing = {} THEN "undefined"
                       ELSE CHOOSE q \in Missing : \A o \in Missing : Len(q) <= Len(o)


(***************************************************************************)
(* RmSpec: rm(path, {recursive, force}) and rmSync.  The stats cache of    *)
(* the walk is taken to hold nothing: every lookup asks the backend.       *)
(***************************************************************************)

def_file == <<"/", "d", "/", "e", "/", "f">>
dg_file == <<"/", "d", "/", "g">>

RmPaths == {d_dir, de_dir, def_file, dg_file, h_path, mg_path}

\* What rm hands back: the mount table it leaves, and the backend calls
\* (rmdir, unlink) it issued, in order.
Rm(res, M, log) == [res |-> res, M |-> M, log |-> log]

\* rmdir / rmdirSync on the backend r of path.
rmdir_at(surface, M, r) ==
    IF ~B_exists(M[r.fs], r.path) THEN Failed(M, "ENOENT")
    ELSE IF surface = "async" /\ M[r.fs][r.path].kind # "dir" THEN Failed(M, "ENOTDIR")
    ELSE IF accessChecked(surface) /\ ~hasAccess(M[r.fs][r.path], W_OK, config.cred)
         THEN Failed(M, "EACCES")
    ELSE IF B_rmdirErr(M[r.fs], r.path) # "ok"
         THEN Failed(M, B_rmdirErr(M[r.fs], r.path))
    ELSE [res |-> "ok", M |-> [M EXCEPT ![r.fs] = B_remove(@, r.path)]]

\* Whether rmdir_at reaches the backend's rmdir.
rmdir_issued(surface, M, r) ==
    /\ B_exists(M[r.fs], r.path)
    /\ surface = "async" => M[r.fs][r.path].kind = "dir"
    /\ accessChecked(surface) => hasAccess(M[r.fs][r.path], W_OK, config.cred)

\* rm's `await rmdir(path)`, after the walk w of the directory.
rm_rmdir(surface, path, w, rd) ==
    Rm(rd.res, rd.M,
       IF rmdir_issued(surface, w.M, resolveMount(path))
       THEN Append(w.log, [op |-> "rmdir", path |-> path,
                           entries |-> B_entries(w.M[resolveMount(path).fs],
                                                 resolveMount(path).path)])
       ELSE w.log)

rm_dir(surface, path, w) ==
    IF w.res # "ok" THEN w
    ELSE rm_rmdir(surface, path, w, rmdir_at(surface, w.M, resolveMount(path)))

\* rm's `await unlink(path)`.
rm_unlink(path, log, un) ==
    Rm(un.res, un.M, IF un.res = "ok" THEN Append(log, [op |-> "unlink", path |-> path])
                     ELSE log)

RECURSIVE rm(_, _, _, _, _, _)
RECURSIVE rm_entries(_, _, _, _, _, _, _)

\* The loop over the entries of a directory, after the rm of one of them.
rm_entries_next(surface, path, rest, recursive, force, r) ==
    IF r.res # "ok" THEN r
    ELSE rm_entries(surface, r.M, path, rest, recursive, force, r.log)

rm_entries(surface, M, path, entries, recursive, force, log) ==
    IF entries = {} THEN Rm("ok", M, log)
    ELSE rm_entries_next(surface, path,
             entries \ {CHOOSE e \in entries : TRUE}, recursive, force,
             rm(surface, M, join(path, CHOOSE e \in entries : TRUE),
                recursive, force, log))

\* The walk of a directory: readdir, then rm of every entry.
rm_walk(surface, M, path, recursive, force, log, listing) ==
    IF ~recursive THEN Rm("ok", M, log)
    ELSE IF listing.res # "ok" THEN Rm(listing.res, M, log)
    ELSE rm_entries(surface, M, path, DOMAIN listing.entries, recursive, force, log)

\* rm, once the stats of path are there.
rm_stats(surface, M, path, recursive, force, log, stats) ==
    IF stats.res = "ENOENT" /\ surface = "async" /\ force THEN Rm("ok", M, log)
    ELSE IF stats.res # "ok" THEN Rm(stats.res, M, log)
    ELSE IF stats.node.kind = "dir"
         THEN rm_dir(surface, path,
                     rm_walk(surface, M, path, recursive, force, log,
                             IF recursive THEN vfs_readdir(surface, M, path)
                             ELSE [res |-> "ok"]))
    ELSE rm_unlink(path, log, vfs_unlink(surface, M, path))

\* lstat(path)
vfs_lstat(M, path) ==
    IF Has(M, path) THEN [res |-> "ok", node |-> Node(M, path)]
    ELSE [res |-> "ENOENT"]

\* rm(path, {recursive, force}) takes lstat(path), rmSync statSync(path).
rm(surface, M, path, recursive, force, log) ==
    rm_stats(surface, M, path, recursive, force, log,
             IF surface = "async" THEN vfs_lstat(M, path)
             ELSE vfs_stat("sync", M, path))

\* rm(path, {recursive, force}) / rmSync(path, {recursive, force})
VfsRm(surface, path, recursive, force) ==
    /\ \E r \in {rm(surface, mounted, normalizePath(path), recursive, force, <<>>)} :
          /\ mounted' = r.M
          /\ vlast' = [op |-> "rm", surface |-> surface, path |-> path,
                       recursive |-> recursive, force |-> force, res |-> r.res,
                       log |-> r.log, before |-> mounted]
    /\ UNCHANGED <<fdMap, files, pend, config, args, events>>
    /\ UNCHANGED <<mutexVars, overlayVars, objVars>>

RmInit ==
    /\ mounted \in {(Root :> rootfs) @@ (m_path :> mfs) :
                      rootfs \in {(Root :> Dir(493)) @@ (d_dir :> Dir(493))
                                     @@ (de_dir :> Dir(493))
                                     @@ (def_file :> File(DefaultMode, <<"x">>))
                                     @@ (dg_file :> File(DefaultMode, <<"y">>)),
                                  (Root :> Dir(493)) @@ (d_dir :> Dir(493))
                                     @@ (de_dir :> Dir(493))},
                      mfs \in {(Root :> Dir(493)) @@ (<<"/", "g">> :> File(DefaultMode, <<"z">>))}}
    /\ config \in [checkAccess : BOOLEAN, cred : Creds]
    /\ args = [surface |-> "sync", flag |-> "r", mode |-> 0]
    /\ fdMap = <<>>
    /\ files = <<>>
    /\ pend = [op |-> "none"]
    /\ events = <<>>
    /\ vlast = [op |-> "none"]
    \* the mutex adapter and the overlay are not part of these runs
    /\ locks = <<>>
    /\ timers = <<>>
    /\ iter = <<>>
    /\ stream = <<>>
    /\ txn = <<>>
    /\ currentLock = 0
    /\ pc = [t \in Tasks |-> "idle"]
    /\ call = [t \in Tasks |-> "none"]
    /\ myLock = [t \in Tasks |-> 0]
    /\ result = [t \in Tasks |-> "none"]
    /\ x = 1
    /\ backendCalls = 0
    /\ upper = <<>>
    /\ lower = <<>>
    /\ deletedFiles = {}
    /\ deleteLog = <<>>
    /\ logWrites = <<>>
    /\ last = [op |-> "none"]

RmNext ==
    \/ \E s \in Surfaces, p \in RmPaths, recursive \in BOOLEAN, force \in BOOLEAN :
          VfsRm(s, p, recursive, force)
    \/ \E s \in Surfaces, p \in {d_dir, de_dir}, mode \in {493} : VfsMkdir(s, p, mode)

RmSpec == RmInit /\ [][RmNext]_vars

\* Whether anything is at path or below it.
AnyAt(M, path) == \E mp \in DOMAIN M : \E p \in DOMAIN M[mp] :
                      UserPath(mp, p) = path \/ Under(path, UserPath(mp, p))

\* C23: a successful recursive rm of P issues no rmdir on a directory that
\* still has entries and leaves nothing at or below P; with force, rm of a
\* missing path succeeds and changes nothing; without force it fails ENOENT.
C23_Rm ==
    vlast.op = "rm" =>
        /\ (vlast.recursive /\ vlast.res = "ok") =>
              /\ \A i \in 1..Len(vlast.log) :
                    vlast.log[i].op = "rmdir" => vlast.log[i].entries = {}
              /\ ~AnyAt(mounted, vlast.path)
        /\ (~Has(vlast.before, vlast.path) /\ vlast.force) =>
              vlast.res = "ok" /\ mounted = vlast.before
        /\ (~Has(vlast.before, vlast.path) /\ ~vlast.force) => vlast.res = "ENOENT"


(***************************************************************************)
(* ErrorSpec: the path field of the errors the path-taking calls throw.    *)
(* No symbolic links are made here, so realpath gives its input back.  A   *)
(* backend's own error names the path the backend was called with.         *)
(***************************************************************************)

msh_path == <<"/", "m", "/", "s", "/", "h">>

ErrorPaths == {h_path, mg_path, msh_path}

\* fixError(e, paths): the path of e, put through the dictionary.
fixError(epath, paths) == IF epath \in DOMAIN paths THEN paths[epath] ELSE epath

\* How a call ended: its errno ("ok" when it returned), the mount table it
\* leaves, and the path field of the error thrown.
Thrown(res, M, epath) == [res |-> res, M |-> M, epath |-> epath]

\* stat / statSync / lstat / lstatSync: every throw is inside the try.
stat_thrown(res, M, path, r) == Thrown(res, M, fixError(r.path, r.path :> path))

\* unlink / unlinkSync
unlink_thrown(un, path, r) == Thrown(un.res, un.M, fixError(r.path, r.path :> path))

\* rmdir / rmdirSync
rmdir_thrown(rd, path, r) == Thrown(rd.res, rd.M, fixError(r.path, r.path :> path))

\* readdir / readdirSync
readdir_thrown(listing, M, path) == Thrown(listing.res, M, path)

\* mkdir(path, mode) / mkdirSync, not recursive.
mkdir_plain(surface, M, path, r, mode) ==
    IF accessChecked(surface) /\ ~B_exists(M[r.fs], dirname(r.path))
    THEN Thrown("ENOENT", M, fixError(dirname(r.path), r.path :> path))
    ELSE IF accessChecked(surface)
            /\ ~hasAccess(M[r.fs][dirname(r.path)], W_OK, config.cred)
         THEN Thrown("EACCES", M, fixError(dirname(r.path), r.path :> path))
    ELSE IF B_newErr(M[r.fs], r.path) # "ok"
         THEN Thrown(B_newErr(M[r.fs], r.path), M, fixError(r.path, r.path :> path))
    ELSE Thrown("ok", [M EXCEPT ![r.fs] = B_put(@, r.path, Dir(mode))], path)

\* The path field of the error a failing _open / _openSync throws: no throw
\* of it is inside a try, and the stat of the parent is the backend's.
open_epath(M, path, r, flag) ==
    IF B_exists(M[r.fs], r.path) THEN path
    ELSE IF open_absentFails(flag) THEN path
    ELSE IF ~B_exists(M[r.fs], dirname(r.path)) THEN dirname(r.path)
    ELSE dirname(path)

ErrorOps == {"stat", "lstat", "mkdir", "rmdir", "readdir", "unlink"}

\* What the call `op` of path does.
vfs_call(op, surface, M, path) ==
    CASE op = "stat" ->
           stat_thrown(vfs_stat(surface, M, path).res, M, path, resolveMount(path))
      [] op = "lstat" ->
           stat_thrown(vfs_lstat(M, path).res, M, path, resolveMount(path))
      [] op = "unlink" ->
           unlink_thrown(vfs_unlink(surface, M, path), path, resolveMount(path))
      [] op = "rmdir" ->
           rmdir_thrown(rmdir_at(surface, M, resolveMount(path)), path,
                        resolveMount(path))
      [] op = "readdir" ->
           readdir_thrown(vfs_readdir(surface, M, path), M, path)
      [] op = "mkdir" ->
           mkdir_plain(surface, M, path, resolveMount(path), 493)

\* stat, lstat, mkdir, rmdir, readdir, unlink and their Sync forms
VfsCall(op, surface, path) ==
    /\ \E r \in {vfs_call(op, surface, mounted, normalizePath(path))} :
          /\ mounted' = r.M
          /\ vlast' = [op |-> op, surface |-> surface, path |-> path,
                       res |-> r.res, epath |-> r.epath]
    /\ UNCHANGED <<fdMap, files, pend, config, args, events>>
    /\ UNCHANGED <<mutexVars, overlayVars, objVars>>

\* open(path, flag) / openSync(path, flag) that throws; chmod and readlink
\* open the path with 'r+' and 'r'.
OpenThrows(surface, path, flag) ==
    /\ \E o \in {_open(surface, mounted, path, flag, DefaultMode, TRUE)} :
          /\ o.res # "ok"
          /\ vlast' = [op |-> "open", surface |-> surface, path |-> path,
                       res |-> o.res,
                       epath |-> open_epath(mounted, path, resolveMount(path), flag)]
    /\ UNCHANGED <<mounted, fdMap, files, pend, config, args, events>>
    /\ UNCHANGED <<mutexVars, overlayVars, objVars>>

ErrorInit ==
    /\ mounted = (Root :> ((Root :> Dir(493)) @@ (f_path :> File(DefaultMode, <<"x">>))))
                 @@ (m_path :> ((Root :> Dir(493))
                                  @@ (<<"/", "g">> :> File(DefaultMode, <<"z">>))))
    /\ config \in [checkAccess : BOOLEAN, cred : {"root"}]
    /\ args = [surface |-> "sync", flag |-> "r", mode |-> 0]
    /\ fdMap = <<>>
    /\ files = <<>>
    /\ pend = [op |-> "none"]
    /\ events = <<>>
    /\ vlast = [op |-> "none"]
    \* the mutex adapter and the overlay are not part of these runs
    /\ locks = <<>>
    /\ timers = <<>>
    /\ iter = <<>>
    /\ stream = <<>>
    /\ txn = <<>>
    /\ currentLock = 0
    /\ pc = [t \in Tasks |-> "idle"]
    /\ call = [t \in Tasks |-> "none"]
    /\ myLock = [t \in Tasks |-> 0]
    /\ result = [t \in Tasks |-> "none"]
    /\ x = 1
    /\ backendCalls = 0
    /\ upper = <<>>
    /\ lower = <<>>
    /\ deletedFiles = {}
    /\ deleteLog = <<>>
    /\ logWrites = <<>>
    /\ last = [op |-> "none"]

ErrorNext ==
    \/ \E op \in ErrorOps, s \in Surfaces, p \in ErrorPaths : VfsCall(op, s, p)
    \/ \E s \in Surfaces, p \in ErrorPaths, flag \in {"r", "r+", "w"} :
          OpenThrows(s, p, flag)

ErrorSpec == ErrorInit /\ [][ErrorNext]_vars

\* C24: the error of a path-taking call names a path of the caller: the
\* path passed, or a directory above it.
C24_ErrorPaths ==
    (vlast.op # "none" /\ vlast.res # "ok") =>
        \/ vlast.epath = vlast.path
        \/ vlast.epath = Root
        \/ Under(vlast.epath, vlast.path)


(***************************************************************************)
(* FileSpec: the helpers that open a file themselves: writeFile, readFile  *)
(* and stat, with their Sync forms.  File.write(data, 0, n, 0) puts the    *)
(* data at the start of the file and keeps what lies beyond it; the File   *)
(* reaches the backend when it is closed.                                  *)
(***************************************************************************)

FilePaths == {f_path, h_path}

\* What writeFile is given.
FileData == {<<"a">>, <<"a", "b", "c">>}

\* How a helper ended: its errno, the mount table it leaves, what it
\* returns, and whether the handle it opened is still in the FD table.
Helped(res, M, data, registered) ==
    [res |-> res, M |-> M, data |-> data, registered |-> registered]

\* The file's bytes after handle.writeFile(data).
written(M, file, data) ==
    [M EXCEPT ![file.fs] =
        B_put(@, file.path, [@[file.path] EXCEPT !.data = WriteAt0(@, data)])]

\* writeFile / writeFileSync, after the open: the write, then the disposal.
\* Only the asynchronous open registers its File (FileHandle's constructor);
\* FileHandle.close deletes the descriptor after `await this.file.close()`.
writeFile_opened(surface, M, file, data, cl) ==
    IF surface = "async" /\ cl # "ok"
    THEN Helped(cl, written(M, file, data), <<>>, TRUE)
    ELSE Helped("ok", written(M, file, data), <<>>, FALSE)

\* writeFile / writeFileSync, the open with 'w+': the truncation of an
\* existing file is part of the open.
writeFile_open(surface, o, data, tr, cl) ==
    IF o.res # "ok" THEN Helped(o.res, o.M, <<>>, FALSE)
    ELSE IF o.truncate /\ tr # "ok" THEN Helped(tr, o.M, <<>>, surface = "async")
    ELSE writeFile_opened(surface,
                          IF o.truncate THEN truncated(o.M, o.file) ELSE o.M,
                          o.file, data, cl)

\* writeFile(path, data) / writeFileSync(path, data)
vfs_writeFile(surface, M, path, data, tr, cl) ==
    writeFile_open(surface, _open(surface, M, path, "w+", DefaultMode, TRUE),
                   data, tr, cl)

\* readFile / readFileSync: stat for the size, read that many bytes.
readFile_open(surface, o, cl) ==
    IF o.res # "ok" THEN Helped(o.res, o.M, <<>>, FALSE)
    ELSE IF surface = "async" /\ cl # "ok" THEN Helped(cl, o.M, <<>>, TRUE)
    ELSE Helped("ok", o.M,
                SubSeq(o.M[o.file.fs][o.file.path].data, 1,
                       Len(o.M[o.file.fs][o.file.path].data)),
                FALSE)

\* readFile(path) / readFileSync(path)
vfs_readFile(surface, M, path, cl) ==
    readFile_open(surface, _open(surface, M, path, "r", DefaultMode, TRUE), cl)

\* What is known to be in the file at path: the data of the last writeFile
\* that succeeded, when the calls since were reads of the same path.
Wrote(path) ==
    IF vlast.op \in {"writeFile", "readFile", "stat"} /\ vlast.path = path
    THEN vlast.wrote
    ELSE [known |-> FALSE, data |-> <<>>, shorter |-> FALSE]

\* The File a helper left in the FD table.
Registered(r, path, flag) ==
    /\ files' = IF r.registered
                THEN Append(files, [fs |-> resolveMount(path).fs,
                                    path |-> resolveMount(path).path,
                                    flag |-> flag, fd |-> file2fd(fdMap),
                                    closed |-> FALSE])
                ELSE files
    /\ fdMap' = IF r.registered THEN (file2fd(fdMap) :> (Len(files) + 1)) @@ fdMap
                ELSE fdMap

\* writeFile(path, data) / writeFileSync(path, data)
VfsWriteFile(surface, path, data, tr, cl) ==
    /\ Len(files) < MaxFiles
    /\ \E r \in {vfs_writeFile(surface, mounted, path, data, tr, cl)} :
          /\ mounted' = r.M
          /\ Registered(r, path, "w+")
          /\ vlast' = [op |-> "writeFile", surface |-> surface, path |-> path,
                       res |-> r.res, data |-> data, size |-> 0,
                       fdsBefore |-> DOMAIN fdMap,
                       wrote |-> [known |-> r.res = "ok", data |-> data,
                                  shorter |-> /\ Has(mounted, path)
                                              /\ Len(Node(mounted, path).data) > Len(data)]]
    /\ UNCHANGED <<pend, config, args, events>>
    /\ UNCHANGED <<mutexVars, overlayVars, objVars>>

\* readFile(path) / readFileSync(path)
VfsReadFile(surface, path, cl) ==
    /\ Len(files) < MaxFiles
    /\ \E r \in {vfs_readFile(surface, mounted, path, cl)} :
          /\ mounted' = r.M
          /\ Registered(r, path, "r")
          /\ vlast' = [op |-> "readFile", surface |-> surface, path |-> path,
                       res |-> r.res, data |-> r.data, size |-> 0,
                       fdsBefore |-> DOMAIN fdMap, wrote |-> Wrote(path)]
    /\ UNCHANGED <<pend, config, args, events>>
    /\ UNCHANGED <<mutexVars, overlayVars, objVars>>

\* stat(path) / statSync(path): the size it reports.
VfsStat(surface, path) ==
    /\ \E st \in {vfs_stat(surface, mounted, path)} :
          vlast' = [op |-> "stat", surface |-> surface, path |-> path,
                    res |-> st.res, data |-> <<>>,
                    size |-> IF st.res = "ok" THEN Len(st.node.data) ELSE 0,
                    fdsBefore |-> DOMAIN fdMap, wrote |-> Wrote(path)]
    /\ UNCHANGED <<mounted, fdMap, files, pend, config, args, events>>
    /\ UNCHANGED <<mutexVars, overlayVars, objVars>>

FileInit ==
    /\ mounted = (Root :> ((Root :> Dir(493))
                             @@ (f_path :> File(DefaultMode, <<"x", "y">>))))
                 @@ (m_path :> (Root :> Dir(493)))
    /\ config \in [checkAccess : BOOLEAN, cred : Creds]
    /\ args = [surface |-> "sync", flag |-> "r", mode |-> 0]
    /\ fdMap = <<>>
    /\ files = <<>>
    /\ pend = [op |-> "none"]
    /\ events = <<>>
    /\ vlast = [op |-> "none"]
    \* the mutex adapter and the overlay are not part of these runs
    /\ locks = <<>>
    /\ timers = <<>>
    /\ iter = <<>>
    /\ stream = <<>>
    /\ txn = <<>>
    /\ currentLock = 0
    /\ pc = [t \in Tasks |-> "idle"]
    /\ call = [t \in Tasks |-> "none"]
    /\ myLock = [t \in Tasks |-> 0]
    /\ result = [t \in Tasks |-> "none"]
    /\ x = 1
    /\ backendCalls = 0
    /\ upper = <<>>
    /\ lower = <<>>
    /\ deletedFiles = {}
    /\ deleteLog = <<>>
    /\ logWrites = <<>>
    /\ last = [op |-> "none"]

FileNext ==
    \/ \E s \in Surfaces, p \in FilePaths, data \in FileData,
          tr \in IOOutcomes, cl \in IOOutcomes : VfsWriteFile(s, p, data, tr, cl)
    \/ \E s \in Surfaces, p \in FilePaths, cl \in IOOutcomes : VfsReadFile(s, p, cl)
    \/ \E s \in Surfaces, p \in FilePaths : VfsStat(s, p)

FileSpec == FileInit /\ [][FileNext]_vars

\* C25: after a writeFile(P, B) that succeeded, P holds B, a readFile(P)
\* returns B and stat(P) reports the size Len(B), whatever P held before.
C25_WriteThenRead ==
    /\ (vlast.op = "writeFile" /\ vlast.res = "ok") =>
          Has(mounted, vlast.path) /\ Node(mounted, vlast.path).data = vlast.data
    /\ (vlast.op = "readFile" /\ vlast.res = "ok" /\ vlast.wrote.known) =>
          vlast.data = vlast.wrote.data
    /\ (vlast.op = "stat" /\ vlast.res = "ok" /\ vlast.wrote.known) =>
          vlast.size = Len(vlast.wrote.data)

\* A readFile that returned, after a writeFile of fewer bytes than the file
\* held.
C25_Witness ==
    /\ vlast.op = "readFile"
    /\ vlast.res = "ok"
    /\ vlast.wrote.known
    /\ vlast.wrote.shorter

\* C26: a helper that opens a file itself leaves the FD table as it found
\* it, however it ends.
C26_HandlesReleased ==
    vlast.op \in {"writeFile", "readFile"} => DOMAIN fdMap = vlast.fdsBefore


(***************************************************************************)
(* Directories of the overlay (OverlaySpec).                               *)
(***************************************************************************)

\* Whether the merged directory at path has entries.
MergedEntries(S, path) ==
    IF readdir(S, path).res = "ok" THEN readdir(S, path).names ELSE {}

\* C27: rmdir(P) fails ENOENT when P is not visible and ENOTEMPTY when the
\* merged directory P has entries, and leaves upper, the deleted set and the
\* log as they were in both cases; on an empty merged directory it succeeds
\* and P is no longer visible.
C27_Rmdir ==
    [][(last'.op = "rmdir") =>
        /\ ~exists(Here, last'.path) => last'.res = "ENOENT"
        /\ (exists(Here, last'.path) /\ stat(Here, last'.path).kind = "dir") =>
              last'.res = IF MergedEntries(Here, last'.path) # {} THEN "ENOTEMPTY"
                          ELSE "ok"
        /\ last'.res \in {"ENOENT", "ENOTEMPTY"} =>
              UNCHANGED <<upper, deletedFiles, deleteLog>>
        /\ last'.res = "ok" =>
              ~exists([up |-> upper', del |-> deletedFiles', log |-> deleteLog'],
                      last'.path)
      ]_vars


(***************************************************************************)
(* OverlayDirSpec: mkdir and rmdir of nested directories of the overlay.   *)
(***************************************************************************)

ad_path == <<"/", "a", "/", "d">>
ade_path == <<"/", "a", "/", "d", "/", "e">>
xd_path == <<"/", "x", "/", "d">>

\* The directories made: under lower's /a, two levels under it, and under a
\* directory that is nowhere.
MadePaths == {a_path, ad_path, ade_path, xd_path}

\* 0o755
MadeModes == {493}

\* lower with an empty directory /a (0o555).
LowerEmptyDir == (Root :> Dir(365)) @@ (a_path :> Dir(365))

\* An overlay over an upper that holds an empty deletion log.
OverlayDirInit ==
    /\ upper = (Root :> Dir(511)) @@ (deletionLogPath :> File(420, <<>>))
    /\ lower \in {LowerAtStart, LowerEmptyDir}
    /\ deletedFiles = {}
    /\ deleteLog = <<>>
    /\ logWrites = <<>>
    /\ last = Ran("construct", Root, Root, "ok")
    \* the mutex adapter is not part of these runs
    /\ locks = <<>>
    /\ timers = <<>>
    /\ iter = <<>>
    /\ stream = <<>>
    /\ txn = <<>>
    /\ currentLock = 0
    /\ pc = [t \in Tasks |-> "idle"]
    /\ call = [t \in Tasks |-> "none"]
    /\ myLock = [t \in Tasks |-> 0]
    /\ result = [t \in Tasks |-> "none"]
    /\ x = 1
    /\ backendCalls = 0
    \* the virtual file system is not part of these runs
    /\ mounted = <<>>
    /\ fdMap = <<>>
    /\ files = <<>>
    /\ pend = [op |-> "none"]
    /\ config = [checkAccess |-> TRUE, cred |-> "root"]
    /\ args = [surface |-> "sync", flag |-> "r", mode |-> 0]
    /\ events = <<>>
    /\ vlast = [op |-> "none"]

OverlayDirNext ==
    \/ \E p \in MadePaths, m \in MadeModes : Mkdir(p, m)
    \/ \E p \in MadePaths : Rmdir(p)
    \/ \E p \in UserFiles : Unlink(p)

OverlayDirSpec == OverlayDirInit /\ [][OverlayDirNext]_vars

\* The directories above path, below the root.
Above(path) == UpTo(dirname(path))

\* C28: mkdir(P, m) fails EEXIST when P is visible and ENOENT when a
\* directory above P is not; otherwise it makes on upper every directory
\* above P that upper lacks, with the mode the overlay's stat reports for it,
\* and then P with mode m, and changes nothing else.
C28_Mkdir ==
    [][(last'.op = "mkdir") =>
        /\ exists(Here, last'.path) =>
              last'.res = "EEXIST" /\ UNCHANGED <<upper, deletedFiles, deleteLog>>
        /\ (~exists(Here, last'.path)
            /\ \E q \in Above(last'.path) : ~exists(Here, q)) => last'.res = "ENOENT"
        /\ (~exists(Here, last'.path)
            /\ \A q \in Above(last'.path) :
                  exists(Here, q) /\ stat(Here, q).kind = "dir") =>
              /\ last'.res = "ok"
              /\ DOMAIN upper' = DOMAIN upper \cup Above(last'.path) \cup {last'.path}
              /\ \A q \in DOMAIN upper : upper'[q] = upper[q]
              /\ \A q \in Above(last'.path) \ DOMAIN upper :
                    upper'[q] = Dir(stat(Here, q).mode)
              /\ upper'[last'.path].kind = "dir"
              /\ upper'[last'.path].mode \in MadeModes
              /\ UNCHANGED <<deletedFiles, deleteLog>>
      ]_vars

\* C29: when a write is synced for a path that was on lower only, every
\* directory above it is on upper with the mode the overlay's stat reported,
\* the path is on upper with the content written, and its mode on upper is
\* lower's mode with the write bits 0o222 set.
C29_CopyUp ==
    [][(/\ last'.op = "sync"
        /\ last'.res = "ok"
        /\ ~B_exists(upper, last'.path)
        /\ B_exists(lower, last'.path)) =>
        /\ \A q \in Above(last'.path) :
              /\ B_exists(upper', q)
              /\ exists(Here, q) => upper'[q].mode = stat(Here, q).mode
        /\ B_exists(upper', last'.path)
        /\ upper'[last'.path].data \in
              {WriteAt0(lower[last'.path].data, d) : d \in Written}
        /\ upper'[last'.path].mode = BitOr(lower[last'.path].mode, WriteBits)
      ]_vars


(***************************************************************************)
(* LogSpec: the writes of the deletion log.  unlinkSync and rmdirSync call *)
(* `void this.deletePath(path)`: updateLog runs to its first await inside  *)
(* the call and goes on after the call has returned.                       *)
(***************************************************************************)

\* How a synchronous operation ended, and whether it began an updateLog.
Begun(S, e, begun) ==
    [up |-> S.up, del |-> S.del, log |-> S.log, res |-> e, begun |-> begun]

\* deletePath up to updateLog's first await: the path joins deletedFiles and
\* the entry joins deleteLog.
deletePath_begun(S, path) ==
    Begun([S EXCEPT !.del = @ \cup {path},
                    !.log = @ \o <<"d">> \o path \o <<"\n">>], "ok", TRUE)

\* unlinkSync / rmdirSync, after the path is gone from upper.
deleteSync_still(S1, path, isDir) ==
    IF ~exists(S1, path) THEN Begun(S1, "ok", FALSE)
    ELSE IF isDir /\ readdir(S1, path).res # "ok" THEN Begun(S1, readdir(S1, path).res, FALSE)
    ELSE IF isDir /\ readdir(S1, path).names # {} THEN Begun(S1, "ENOTEMPTY", FALSE)
    ELSE deletePath_begun(S1, path)

\* UnmutexedOverlayFS.unlinkSync
unlinkSync(S, path) ==
    IF ~exists(S, path) THEN Begun(S, "ENOENT", FALSE)
    ELSE IF B_exists(S.up, path) /\ B_unlinkErr(S.up, path) # "ok"
         THEN Begun(S, B_unlinkErr(S.up, path), FALSE)
    ELSE deleteSync_still(IF B_exists(S.up, path)
                          THEN [S EXCEPT !.up = B_remove(@, path)] ELSE S,
                          path, FALSE)

\* UnmutexedOverlayFS.rmdirSync
rmdirSync(S, path) ==
    IF ~exists(S, path) THEN Begun(S, "ENOENT", FALSE)
    ELSE IF B_exists(S.up, path) /\ B_rmdirErr(S.up, path) # "ok"
         THEN Begun(S, B_rmdirErr(S.up, path), FALSE)
    ELSE deleteSync_still(IF B_exists(S.up, path)
                          THEN [S EXCEPT !.up = B_remove(@, path)] ELSE S,
                          path, TRUE)

\* The overlay after a synchronous operation.
LeavesSync(op, path, o) ==
    /\ upper' = o.up
    /\ deletedFiles' = o.del
    /\ deleteLog' = o.log
    /\ logWrites' = IF o.begun THEN Append(logWrites, [stage |-> "open"])
                    ELSE logWrites
    /\ last' = Ran(op, path, path, o.res)
    /\ UNCHANGED lower
    /\ UNCHANGED <<mutexVars, vfsVars, objVars>>

UnlinkSync(path) == \E o \in {unlinkSync(Here, path)} : LeavesSync("unlinkSync", path, o)

RmdirSync(path) == \E o \in {rmdirSync(Here, path)} : LeavesSync("rmdirSync", path, o)

\* logWrites without its i-th call.
WithoutCall(i) == SubSeq(logWrites, 1, i - 1) \o SubSeq(logWrites, i + 1, Len(logWrites))

\* updateLog: `await this.writable.openFile(deletionLogPath, parseFlag('w'))`
\* settles.  Nothing awaits the promise of a deletePath begun by a
\* synchronous operation: its rejection reaches no caller.
LogOpened(i) ==
    /\ i \in 1..Len(logWrites)
    /\ logWrites[i].stage = "open"
    /\ IF B_exists(upper, deletionLogPath)
       THEN /\ logWrites' = [logWrites EXCEPT ![i].stage = "write"]
            /\ UNCHANGED last
       ELSE /\ logWrites' = WithoutCall(i)
            /\ last' = Ran("updateLog", deletionLogPath, deletionLogPath, "ENOENT")
    /\ UNCHANGED <<upper, lower, deletedFiles, deleteLog>>
    /\ UNCHANGED <<mutexVars, vfsVars, objVars>>

\* updateLog: `await log.write(encode(this.deleteLog))` settles.
LogWritten(i, outcome) ==
    /\ i \in 1..Len(logWrites)
    /\ logWrites[i].stage = "write"
    /\ B_exists(upper, deletionLogPath)
    /\ upper' = IF outcome = "ok"
                THEN [upper EXCEPT ![deletionLogPath].data =
                                       updateLog_written(@, deleteLog)]
                ELSE upper
    /\ logWrites' = WithoutCall(i)
    /\ last' = Ran("updateLog", deletionLogPath, deletionLogPath, outcome)
    /\ UNCHANGED <<lower, deletedFiles, deleteLog>>
    /\ UNCHANGED <<mutexVars, vfsVars, objVars>>

LogInit ==
    /\ upper = (Root :> Dir(511)) @@ (deletionLogPath :> File(420, <<>>))
    /\ lower = LowerAtStart
    /\ deletedFiles = {}
    /\ deleteLog = <<>>
    /\ logWrites = <<>>
    /\ last = Ran("construct", Root, Root, "ok")
    \* the mutex adapter is not part of these runs
    /\ locks = <<>>
    /\ timers = <<>>
    /\ iter = <<>>
    /\ stream = <<>>
    /\ txn = <<>>
    /\ currentLock = 0
    /\ pc = [t \in Tasks |-> "idle"]
    /\ call = [t \in Tasks |-> "none"]
    /\ myLock = [t \in Tasks |-> 0]
    /\ result = [t \in Tasks |-> "none"]
    /\ x = 1
    /\ backendCalls = 0
    \* the virtual file system is not part of these runs
    /\ mounted = <<>>
    /\ fdMap = <<>>
    /\ files = <<>>
    /\ pend = [op |-> "none"]
    /\ config = [checkAccess |-> TRUE, cred |-> "root"]
    /\ args = [surface |-> "sync", flag |-> "r", mode |-> 0]
    /\ events = <<>>
    /\ vlast = [op |-> "none"]

LogNext ==
    \/ \E p \in Targets : UnlinkSync(p)
    \/ \E p \in Targets : RmdirSync(p)
    \/ \E p \in UserFiles : Unlink(p)
    \/ \E i \in 1..3 : LogOpened(i)
    \/ \E i \in 1..3, outcome \in IOOutcomes : LogWritten(i, outcome)

LogSpec == LogInit /\ [][LogNext]_vars

\* The public operations of LogSpec.
PublicOps == {"unlink", "unlinkSync", "rmdirSync"}

\* C30: at most one write of the deletion log is under way; a write that
\* succeeded has left the whole of deleteLog in the log file; the error of
\* a write that failed is raised by the public operation called next.
C30_LogWrites ==
    /\ [](Len(logWrites) <= 1)
    /\ []((last.op = "updateLog" /\ last.res = "ok" /\ B_exists(upper, deletionLogPath))
             => upper[deletionLogPath].data = deleteLog)
    /\ [][(last.op = "updateLog" /\ last.res # "ok" /\ last'.op \in PublicOps)
             => last'.res = last.res]_vars


(***************************************************************************)
(* DeadlineSpec: callers of the wrapper and the callbacks lock() arms      *)
(* with setTimeout.  A callback runs once, at any moment after the call    *)
(* that armed it: the 5000 ms are not counted, every order of the          *)
(* deadline and the other steps is taken.                                  *)
(***************************************************************************)

\* The callback's test: `if (lock.isLocked)`.
timer_throws_always(ls, k) == TRUE

timer_throws(ls, k) == ls[k].isLocked

\* The callback of the i-th lock() runs: it throws EDEADLK out of the timer
\* when its lock is still locked and does nothing otherwise.
TimerFires(i) ==
    /\ i \in 1..Len(timers)
    /\ timers[i].state = "armed"
    /\ timers' = [timers EXCEPT ![i].state =
                     IF timer_throws(locks, timers[i].lock) THEN "EDEADLK"
                     ELSE "quiet"]
    /\ UNCHANGED <<locks, currentLock, pc, call, myLock, result, x, backendCalls>>
    /\ UNCHANGED <<overlayVars, vfsVars, objVars>>

DeadlineNext ==
    \/ \E t \in Tasks, m \in AsyncMethods : CallAsync(t, m)
    \/ \E t \in Tasks : Granted(t)
    \/ \E t \in Tasks, o \in Outcomes : InnerSettles(t, o)
    \/ \E t \in Tasks : LockSync(t)
    \/ \E t \in Tasks : Unlock(t)
    \/ \E i \in 1..NTasks : TimerFires(i)

DeadlineSpec == MutexInit /\ [][DeadlineNext]_vars

\* The i-th callback runs in this step.
Fires(i) ==
    i \in 1..Len(timers) /\ timers[i].state = "armed" /\ timers'[i].state # "armed"

\* C31: when the deadline of a lock obtained through lock() passes, EDEADLK
\* is raised if the lock is still locked and is not raised if it has been
\* unlocked; the raising unlocks no lock, leaves the chain of locks and its
\* order as they were, and neither settles nor rejects any caller: each
\* caller stands where it stood, with the result it had, and the calls in
\* flight at the backend are the same.
C31_Deadline ==
    [][\A i \in 1..NTasks :
          Fires(i) =>
             /\ (timers'[i].state = "EDEADLK") <=> locks[timers[i].lock].isLocked
             /\ locks' = locks /\ currentLock' = currentLock
             /\ pc' = pc /\ call' = call /\ myLock' = myLock
             /\ result' = result /\ backendCalls' = backendCalls]_vars

\* C31 witness: EDEADLK has been raised for a lock that is still queued
\* behind a held one, and the callback of a lock unlocked in time has run
\* without raising.
C31_Witness ==
    \E i, j \in 1..Len(timers) :
        /\ timers[i].state = "EDEADLK"
        /\ locks[timers[i].lock].isLocked
        /\ pc[Owner(timers[i].lock)] = "waiting"
        /\ timers[j].state = "quiet"


(***************************************************************************)
(*                        THE ITERATOR OF watch()                          *)
(*                                                                         *)
(* promises.watch and FileSystemCall.watch build the same iterator over    *)
(* an FSWatcher.  The FSWatcher calls its 'change' listeners with the      *)
(* event type and the file name of every change while it is open, and      *)
(* with nothing once close() has been called.                              *)
(***************************************************************************)

\* The next() calls a run makes on the iterator.
MaxNexts == 3

EventTypes == {"change", "rename"}

\* What the promise of a next() call holds.
Pending == [done |-> "pending", value |-> "none"]

\* { value: { eventType, filename }, done: false }
Delivered(eventType, filename) ==
    [done |-> "false", value |-> <<eventType, filename>>]

\* { value: null, done: true }
DoneTrue == [done |-> "true", value |-> "null"]

\* eventQueue.shift(): the resolver that is taken.
shift_last(q) == q[Len(q)]

shift(q) == Head(q)

\* The queue once `taken` has been removed from it.
shift_rest(q, taken) == SelectSeq(q, LAMBDA n : n # taken)

\* next(): a new promise; its resolver joins eventQueue.
IterNext ==
    /\ Len(iter.results) < MaxNexts
    /\ iter' = [iter EXCEPT
                   !.eventQueue = Append(@, Len(iter.results) + 1),
                   !.results = Append(@, Pending),
                   !.ran = "next"]
    /\ UNCHANGED <<mutexVars, overlayVars, vfsVars, stream, txn>>

\* The FSWatcher emits 'change': the listener resolves the resolver it
\* shifts off eventQueue, if there is one.  A closed FSWatcher emits nothing.
IterChange(eventType, filename) ==
    /\ iter' =
          IF iter.watching /\ iter.eventQueue # <<>>
          THEN [iter EXCEPT
                   !.results[shift(iter.eventQueue)] = Delivered(eventType, filename),
                   !.eventQueue = shift_rest(@, shift(iter.eventQueue)),
                   !.ran = "change", !.emitted = <<eventType, filename>>]
          ELSE [iter EXCEPT !.ran = "change", !.emitted = <<eventType, filename>>]
    /\ UNCHANGED <<mutexVars, overlayVars, vfsVars, stream, txn>>

\* cleanup(), which is both return() and throw(): watcher.close(), every
\* resolver of eventQueue is resolved with done: true, the queue is cleared.
IterCleanup(how) ==
    /\ iter' = [iter EXCEPT
                   !.watching = FALSE,
                   !.results = [n \in DOMAIN @ |->
                                   IF \E i \in DOMAIN iter.eventQueue : iter.eventQueue[i] = n
                                   THEN DoneTrue ELSE @[n]],
                   !.eventQueue = <<>>,
                   !.closed = TRUE,
                   !.ran = how]
    /\ UNCHANGED <<mutexVars, overlayVars, vfsVars, stream, txn>>

WatchInit ==
    /\ iter = [eventQueue |-> <<>>, watching |-> TRUE, results |-> <<>>,
               closed |-> FALSE, ran |-> "asyncIterator", emitted |-> <<>>]
    /\ stream = <<>>
    /\ txn = <<>>
    \* the mutex adapter and the overlay are not part of these runs
    /\ locks = <<>>
    /\ timers = <<>>
    /\ currentLock = 0
    /\ pc = [t \in Tasks |-> "idle"]
    /\ call = [t \in Tasks |-> "none"]
    /\ myLock = [t \in Tasks |-> 0]
    /\ result = [t \in Tasks |-> "none"]
    /\ x = 1
    /\ backendCalls = 0
    /\ upper = <<>>
    /\ lower = <<>>
    /\ deletedFiles = {}
    /\ deleteLog = <<>>
    /\ logWrites = <<>>
    /\ last = [op |-> "none"]
    \* the virtual file system is not part of these runs
    /\ mounted = <<>>
    /\ fdMap = <<>>
    /\ files = <<>>
    /\ pend = [op |-> "none"]
    /\ config = [checkAccess |-> TRUE, cred |-> "root"]
    /\ args = [surface |-> "sync", flag |-> "r", mode |-> 0]
    /\ events = <<>>
    /\ vlast = [op |-> "none"]
WatchNext ==
    \/ IterNext
    \/ \E e \in EventTypes, f \in {"f", "g"} : IterChange(e, f)
    \/ \E how \in {"return", "throw"} : IterCleanup(how)

WatchSpec == WatchInit /\ [][WatchNext]_vars

\* The next() calls whose promise is still pending, in the order made.
StillPending(it) ==
    SelectSeq([n \in DOMAIN it.results |-> n],
              LAMBDA n : it.results[n] = Pending)

\* C32: every next() returns a pending promise; an event resolves the
\* longest-pending next(), and only that one, with the event's eventType and
\* filename; return() and throw() close the subscription and resolve every
\* next() still pending with done: true.
C32_WatchIterator ==
    [][/\ (iter'.ran = "next") =>
             /\ Len(iter'.results) = Len(iter.results) + 1
             /\ iter'.results[Len(iter'.results)] = Pending
             /\ SubSeq(iter'.results, 1, Len(iter.results)) = iter.results
       /\ (iter'.ran = "change" /\ iter.watching /\ StillPending(iter) # <<>>) =>
             /\ iter'.results[Head(StillPending(iter))] =
                   [done |-> "false", value |-> iter'.emitted]
             /\ StillPending(iter') = Tail(StillPending(iter))
       /\ (iter'.ran \in {"return", "throw"}) =>
             /\ ~iter'.watching
             /\ \A n \in DOMAIN iter.results :
                   iter'.results[n] =
                      IF iter.results[n] = Pending THEN DoneTrue
                      ELSE iter.results[n]]_vars

\* C32 witness: of three next() calls made in a row the first was resolved
\* by an event and the other two by return() or throw().
C32_Witness ==
    /\ Len(iter.results) = 3
    /\ iter.results[1].done = "false"
    /\ iter.results[2] = DoneTrue
    /\ iter.results[3] = DoneTrue


\* WatchSpec with the events going on: a change that can be emitted is
\* emitted sooner or later.  Whether the caller calls next(), return() or
\* throw() again is up to the caller.
WatchLiveSpec ==
    /\ WatchInit
    /\ [][WatchNext]_vars
    /\ WF_vars(\E e \in EventTypes, f \in {"f", "g"} : IterChange(e, f))

\* The promise of the n-th next() call holds r.
Holds(n, r) == n \in DOMAIN iter.results /\ iter.results[n] = r

\* C40: once return() or throw() has been called, a next() call made later
\* is in the end resolved with done: true, and no next() is resolved with an
\* event any more.
C40_NextAfterClose ==
    /\ \A n \in 1..MaxNexts :
          []((iter.closed /\ Holds(n, Pending)) => <>Holds(n, DoneTrue))
    /\ [][iter.closed =>
             \A n \in DOMAIN iter'.results :
                iter'.results[n].done = "false" =>
                   (n \in DOMAIN iter.results /\ iter.results[n] = iter'.results[n])]_vars


(***************************************************************************)
(*                                 Dir                                     *)
(*                                                                         *)
(* One Dir over a directory that holds Listing.  read(), read(callback)    *)
(* and next() go through _read(), which awaits readdir() when _entries is  *)
(* not set yet; several of them can be awaiting at once.                   *)
(***************************************************************************)

\* The read calls a run makes on the Dir.
MaxReads == 4

\* What readdir(path, { withFileTypes: true }) lists.
Listing == <<"a", "b">>

\* The ways to read: read(), read(callback), next(), readSync().
AsyncReads == {"read", "readCallback", "next"}

\* The end of _read() and readSync(): null when _entries is empty, else the
\* entry shifted off it.
Shifted(entries) ==
    IF entries = <<>> THEN [value |-> "null", entries |-> <<>>]
    ELSE [value |-> Head(entries), entries |-> Tail(entries)]

\* What a call hands back for the value its _read() got: next() wraps it and
\* closes the Dir on null.
Handed(how, value) ==
    IF how = "next" /\ value = "null" THEN "done" ELSE value

\* `this._entries ??= ...` with _entries already set, then the shift.
ReadLoaded(n, how) ==
    \E s \in {Shifted(stream.entries)} :
        stream' = [stream EXCEPT
                      !.entries = s.entries,
                      !.closed = @ \/ (how = "next" /\ s.value = "null"),
                      !.results = Append(@, Handed(how, s.value)),
                      !.how = Append(@, how),
                      !.ran = how, !.raised = "none"]

\* read(), read(callback) or next() is called.  checkClosed() throws EBADF
\* inside _read(): the promise is rejected with it.  With _entries unset the
\* call is suspended on `await readdir(...)`.
DirRead(how) ==
    /\ how \in AsyncReads
    /\ Len(stream.results) < MaxReads
    /\ IF stream.closed
       THEN stream' = [stream EXCEPT !.results = Append(@, "EBADF"),
                                     !.how = Append(@, how),
                                     !.ran = how, !.raised = "EBADF"]
       ELSE IF stream.loaded
       THEN ReadLoaded(Len(stream.results) + 1, how)
       ELSE stream' = [stream EXCEPT !.results = Append(@, "pending"),
                                     !.how = Append(@, how),
                                     !.ran = how, !.raised = "none"]
    /\ UNCHANGED <<mutexVars, overlayVars, vfsVars, iter, txn>>

\* The readdir() that the n-th call awaits resolves: the call assigns the
\* list to _entries, whatever _entries holds by now, and shifts.
DirListed(n) ==
    /\ n \in DOMAIN stream.results
    /\ stream.results[n] = "pending"
    /\ \E s \in {Shifted(Listing)} :
          stream' = [stream EXCEPT
                        !.loaded = TRUE,
                        !.entries = s.entries,
                        !.closed = @ \/ (stream.how[n] = "next" /\ s.value = "null"),
                        !.results[n] = Handed(stream.how[n], s.value),
                        !.ran = "listed", !.raised = "none"]
    /\ UNCHANGED <<mutexVars, overlayVars, vfsVars, iter, txn>>

\* readSync(): checkClosed(), `this._entries ??= readdirSync(...)`, shift.
DirReadSync ==
    /\ Len(stream.results) < MaxReads
    /\ IF stream.closed
       THEN stream' = [stream EXCEPT !.results = Append(@, "EBADF"),
                                     !.how = Append(@, "readSync"),
                                     !.ran = "readSync", !.raised = "EBADF"]
       ELSE \E s \in {Shifted(IF stream.loaded THEN stream.entries ELSE Listing)} :
               stream' = [stream EXCEPT
                             !.loaded = TRUE,
                             !.entries = s.entries,
                             !.results = Append(@, s.value),
                             !.how = Append(@, "readSync"),
                             !.ran = "readSync", !.raised = "none"]
    /\ UNCHANGED <<mutexVars, overlayVars, vfsVars, iter, txn>>

\* close(), close(callback) and closeSync(): this.closed = true.
DirClose(how) ==
    /\ stream' = [stream EXCEPT !.closed = TRUE, !.ran = how, !.raised = "none"]
    /\ UNCHANGED <<mutexVars, overlayVars, vfsVars, iter, txn>>

DirInit ==
    /\ stream = [closed |-> FALSE, loaded |-> FALSE, entries |-> <<>>,
                 results |-> <<>>, how |-> <<>>, ran |-> "new", raised |-> "none"]
    /\ iter = <<>>
    /\ txn = <<>>
    \* the mutex adapter and the overlay are not part of these runs
    /\ locks = <<>>
    /\ timers = <<>>
    /\ currentLock = 0
    /\ pc = [t \in Tasks |-> "idle"]
    /\ call = [t \in Tasks |-> "none"]
    /\ myLock = [t \in Tasks |-> 0]
    /\ result = [t \in Tasks |-> "none"]
    /\ x = 1
    /\ backendCalls = 0
    /\ upper = <<>>
    /\ lower = <<>>
    /\ deletedFiles = {}
    /\ deleteLog = <<>>
    /\ logWrites = <<>>
    /\ last = [op |-> "none"]
    \* the virtual file system is not part of these runs
    /\ mounted = <<>>
    /\ fdMap = <<>>
    /\ files = <<>>
    /\ pend = [op |-> "none"]
    /\ config = [checkAccess |-> TRUE, cred |-> "root"]
    /\ args = [surface |-> "sync", flag |-> "r", mode |-> 0]
    /\ events = <<>>
    /\ vlast = [op |-> "none"]
DirNext ==
    \/ \E how \in AsyncReads : DirRead(how)
    \/ \E n \in 1..MaxReads : DirListed(n)
    \/ DirReadSync
    \/ \E how \in {"close", "closeSync"} : DirClose(how)

DirSpec == DirInit /\ [][DirNext]_vars

\* The calls that were handed entry e.
HandedEntry(e) == {n \in DOMAIN stream.results : stream.results[n] = e}

\* The entries of Listing.
Entries == {Listing[i] : i \in DOMAIN Listing}

\* C33: a read of any kind begun on a closed Dir fails with EBADF; close
\* and closeSync never raise, on a closed Dir either, and leave it closed;
\* no entry of the directory is handed out twice, and null (or the end of
\* the iteration) is handed out only when every entry has been; the
\* iteration's end leaves the Dir closed.
C33_Dir ==
    /\ [][/\ (stream.closed /\ stream'.ran \in AsyncReads \cup {"readSync"}) =>
                /\ stream'.raised = "EBADF"
                /\ stream'.results[Len(stream'.results)] = "EBADF"
          /\ (stream'.ran \in {"close", "closeSync"}) =>
                stream'.raised = "none" /\ stream'.closed]_vars
    /\ [](\A e \in Entries : Cardinality(HandedEntry(e)) <= 1)
    /\ []((HandedEntry("null") \cup HandedEntry("done") # {}) =>
             \A e \in Entries : HandedEntry(e) # {})
    /\ [](HandedEntry("done") # {} => stream.closed)


(***************************************************************************)
(*                          SimpleTransaction                              *)
(*                                                                         *)
(* One transaction over a SimpleSyncStore.  The store maps an Ino to its   *)
(* data; "absent" stands for a key the store does not hold (get returns    *)
(* undefined).  `done` is declared in the Transaction base class and is    *)
(* not yet set when the transaction is made.                               *)
(***************************************************************************)

Inos == {1, 2}

\* The data a run stores: non-empty arrays.
Datas == {"u", "v"}

\* stashOldValue: keep only the earliest value in the transaction.
stashOldValue(t, ino, value) ==
    IF t.originalData[ino] = "unset"
    THEN [t EXCEPT !.originalData[ino] = value]
    ELSE t

\* markModified: the key joins modifiedKeys; its value is stashed unless one
\* has been stashed already.
markModified(t, ino) ==
    stashOldValue([t EXCEPT !.modifiedKeys = @ \cup {ino}], ino, t.store[ino])

\* The value a key had when the transaction first touched it.
Touched(t, ino) ==
    IF t.first[ino] = "unset" THEN [t EXCEPT !.first[ino] = t.store[ino]] ELSE t

\* getSync
TxGet(ino) ==
    /\ txn' = [stashOldValue(Touched(txn, ino), ino, txn.store[ino])
                  EXCEPT !.ran = "getSync"]
    /\ UNCHANGED <<mutexVars, overlayVars, vfsVars, iter, stream>>

\* setSync
TxSet(ino, data) ==
    /\ txn' = [markModified(Touched(txn, ino), ino)
                  EXCEPT !.store[ino] = data, !.ran = "setSync"]
    /\ UNCHANGED <<mutexVars, overlayVars, vfsVars, iter, stream>>

\* removeSync
TxRemove(ino) ==
    /\ txn' = [markModified(Touched(txn, ino), ino)
                  EXCEPT !.store[ino] = "absent", !.ran = "removeSync"]
    /\ UNCHANGED <<mutexVars, overlayVars, vfsVars, iter, stream>>

\* commitSync: this.done = true.
TxCommit ==
    /\ txn' = [txn EXCEPT !.done = TRUE, !.committed = TRUE, !.ran = "commitSync"]
    /\ UNCHANGED <<mutexVars, overlayVars, vfsVars, iter, stream>>

\* abortSync's test before the rollback: `if (!this.done) return`.
abortSync_returns(t) == ~t.done

\* abortSync: the rollback of every modified key to originalData, a key
\* with no data there being deleted.
abortSync(t) ==
    IF abortSync_returns(t) THEN t
    ELSE [t EXCEPT
             !.store = [ino \in Inos |->
                           IF ino \in t.modifiedKeys
                           THEN (IF t.originalData[ino] \in {"unset", "absent"}
                                 THEN "absent" ELSE t.originalData[ino])
                           ELSE @[ino]],
             !.done = TRUE]

TxAbort ==
    /\ txn' = [abortSync(txn) EXCEPT !.ran = "abortSync"]
    /\ UNCHANGED <<mutexVars, overlayVars, vfsVars, iter, stream>>

TxInit ==
    /\ txn \in {[store |-> s, originalData |-> [ino \in Inos |-> "unset"],
                 modifiedKeys |-> {}, done |-> FALSE, committed |-> FALSE,
                 first |-> [ino \in Inos |-> "unset"], ran |-> "transaction"] :
                s \in [Inos -> {"absent", "u"}]}
    /\ iter = <<>>
    /\ stream = <<>>
    \* the mutex adapter and the overlay are not part of these runs
    /\ locks = <<>>
    /\ timers = <<>>
    /\ currentLock = 0
    /\ pc = [t \in Tasks |-> "idle"]
    /\ call = [t \in Tasks |-> "none"]
    /\ myLock = [t \in Tasks |-> 0]
    /\ result = [t \in Tasks |-> "none"]
    /\ x = 1
    /\ backendCalls = 0
    /\ upper = <<>>
    /\ lower = <<>>
    /\ deletedFiles = {}
    /\ deleteLog = <<>>
    /\ logWrites = <<>>
    /\ last = [op |-> "none"]
    \* the virtual file system is not part of these runs
    /\ mounted = <<>>
    /\ fdMap = <<>>
    /\ files = <<>>
    /\ pend = [op |-> "none"]
    /\ config = [checkAccess |-> TRUE, cred |-> "root"]
    /\ args = [surface |-> "sync", flag |-> "r", mode |-> 0]
    /\ events = <<>>
    /\ vlast = [op |-> "none"]
TxNext ==
    \/ \E ino \in Inos : TxGet(ino)
    \/ \E ino \in Inos, data \in Datas : TxSet(ino, data)
    \/ \E ino \in Inos : TxRemove(ino)
    \/ TxCommit
    \/ TxAbort

TxSpec == TxInit /\ [][TxNext]_vars

\* C34: abortSync on a transaction that has not been committed leaves every
\* key the transaction has modified with the value the key had when the
\* transaction first touched it, absent if it was absent then; commitSync
\* leaves the store as the modifications made it.
C34_Abort ==
    [][/\ (txn'.ran = "abortSync" /\ ~txn.committed) =>
             \A ino \in txn.modifiedKeys : txn'.store[ino] = txn.first[ino]
       /\ (txn'.ran = "commitSync") => txn'.store = txn.store]_vars


(***************************************************************************)
(* MutexLiveSpec: callers of the wrapper under the scheduling the event    *)
(* loop and the callers provide: a lock() whose predecessors are all       *)
(* unlocked resumes, a call in flight at the backend settles, and a caller *)
(* that holds a lock it took itself unlocks it.                            *)
(***************************************************************************)

MutexLiveNext ==
    \/ \E t \in Tasks, m \in AsyncMethods : CallAsync(t, m)
    \/ \E t \in Tasks : Granted(t)
    \/ \E t \in Tasks, o \in Outcomes : InnerSettles(t, o)
    \/ \E t \in Tasks : LockSync(t)
    \/ \E t \in Tasks : Unlock(t)

MutexLiveSpec ==
    /\ MutexInit
    /\ [][MutexLiveNext]_vars
    /\ \A t \in Tasks :
          /\ WF_vars(Granted(t))
          /\ WF_vars(\E o \in Outcomes : InnerSettles(t, o))
          /\ WF_vars(Unlock(t))

\* C35: every lock() request is granted in the end, and every asynchronous
\* call on the wrapper reaches the backend and settles, whatever calls
\* before it failed and whatever lockSync() calls came in between.
C35_MutexLiveness ==
    \A t \in Tasks :
        /\ (pc[t] = "waiting") ~> (pc[t] = "inner")
        /\ (pc[t] = "waiting") ~> (pc[t] = "done" /\ result[t] \in {"ok", "file", "err"})

\* C35 witness: a call has failed, a call queued behind it has been granted
\* and has settled, and a lockSync() came in between the two requests.
C35_Witness ==
    \E t, u, v \in Tasks :
        /\ result[t] = "err"
        /\ pc[u] = "done" /\ result[u] \in {"ok", "file"} /\ call[u] = "none"
        /\ myLock[t] > 0 /\ myLock[u] > myLock[t]
        /\ result[v] = "EBUSY"


(***************************************************************************)
(*        THE OVERLAY'S SYNCHRONOUS OPERATIONS, BESIDE THEIR TWINS         *)
(*                                                                         *)
(* PairSpec runs each asynchronous operation of the overlay and, from the  *)
(* same state, its synchronous twin; `last` keeps how both ended.  The     *)
(* run goes on from the state the asynchronous one left.                   *)
(***************************************************************************)

\* UnmutexedOverlayFS.statSync
statSync(S, p) ==
    IF p \in S.del THEN [res |-> "ENOENT"]
    ELSE IF B_exists(S.up, p)
         THEN [res |-> "ok", kind |-> S.up[p].kind, mode |-> S.up[p].mode]
    ELSE IF B_exists(lower, p)
         THEN [res |-> "ok", kind |-> lower[p].kind,
               mode |-> BitOr(lower[p].mode, WriteBits)]
    ELSE [res |-> "ENOENT"]

\* UnmutexedOverlayFS.readdirSync: the two loops that fill `contents`.
readdirSync(S, path) ==
    IF statSync(S, path).res # "ok" THEN [res |-> statSync(S, path).res, names |-> {}]
    ELSE IF statSync(S, path).kind # "dir" THEN [res |-> "ENOTDIR", names |-> {}]
    ELSE [res |-> "ok",
          names |->
            {file \in B_entries(S.up, path) : B_readdirErr(S.up, path) = "ok"}
            \cup
            {file \in B_entries(lower, path) :
                /\ B_readdirErr(lower, path) = "ok"
                /\ TemplateJoin(path, file) \notin S.del}]

\* UnmutexedOverlayFS.createParentDirectoriesSync
RECURSIVE createParentDirectoriesSync_each(_, _)
createParentDirectoriesSync_each(S, ps) ==
    IF ps = <<>> THEN Ends(S, "ok")
    ELSE IF statSync(S, Head(ps)).res # "ok" THEN Ends(S, statSync(S, Head(ps)).res)
    ELSE IF B_newErr(S.up, Head(ps)) # "ok" THEN Ends(S, B_newErr(S.up, Head(ps)))
    ELSE createParentDirectoriesSync_each(
            [S EXCEPT !.up = B_put(@, Head(ps), Dir(statSync(S, Head(ps)).mode))],
            Tail(ps))

createParentDirectoriesSync(S, path) ==
    createParentDirectoriesSync_each(S, toCreate(S.up, dirname(path)))

\* UnmutexedOverlayFS.syncSync: the parents, then this.writable.syncSync,
\* which throws ENOENT for a path upper does not hold.
syncSync_written(S1, path, data, mode) ==
    IF S1.res # "ok" THEN S1
    ELSE IF ~B_exists(S1.up, path) THEN Ends(S1, "ENOENT")
    ELSE Ends([S1 EXCEPT !.up = B_sync(@, path, data, mode)], "ok")

syncSync(S, path, data, mode) ==
    syncSync_written(createParentDirectoriesSync(S, path), path, data, mode)

\* UnmutexedOverlayFS.openFileSync
openFileSync(S, path) ==
    IF B_exists(S.up, path)
    THEN [res |-> "ok",
          file |-> [path |-> path, fs |-> openFile_fs(TRUE),
                    mode |-> S.up[path].mode, data |-> S.up[path].data]]
    ELSE IF B_exists(lower, path)
    THEN [res |-> "ok",
          file |-> [path |-> path, fs |-> openFile_fs(FALSE),
                    mode |-> lower[path].mode, data |-> lower[path].data]]
    ELSE [res |-> "ENOENT"]

\* UnmutexedOverlayFS.createFileSync
createFileSync(S, path, mode) ==
    IF B_newErr(S.up, path) # "ok" THEN Ends(S, B_newErr(S.up, path))
    ELSE Ends([S EXCEPT !.up = B_put(@, path, File(mode, <<>>))], "ok")

\* UnmutexedOverlayFS.mkdirSync
mkdirSync_made(S1, path, mode) ==
    IF S1.res # "ok" THEN S1
    ELSE IF B_newErr(S1.up, path) # "ok" THEN Ends(S1, B_newErr(S1.up, path))
    ELSE Ends([S1 EXCEPT !.up = B_put(@, path, Dir(mode))], "ok")

mkdirSync(S, path, mode) ==
    IF statSync(S, path).res = "ok" THEN Ends(S, "EEXIST")
    ELSE mkdirSync_made(createParentDirectoriesSync(S, path), path, mode)

\* UnmutexedOverlayFS.renameSync
renameSync(S, oldPath, newPath) ==
    IF oldPath \in S.del THEN Ends(S, "ENOENT")
    ELSE IF B_renameErr(S.up, oldPath, newPath) # "ok"
         THEN Ends(S, B_renameErr(S.up, oldPath, newPath))
    ELSE Ends([S EXCEPT !.up = B_rename(@, oldPath, newPath)], "ok")

\* The state a synchronous operation has left once the updateLog it began,
\* if any, has finished: the write puts deleteLog in the log file when
\* upper holds one, and is lost otherwise.
Finished(o) ==
    IF o.begun /\ B_exists(o.up, deletionLogPath)
    THEN Ends([o EXCEPT !.up[deletionLogPath].data = updateLog_written(@, o.log)],
              o.res)
    ELSE Ends(o, o.res)

\* How an operation ended: its result or errno, the value it returned, and
\* the upper backend (the persisted log with it) and deletedFiles it left.
Outcome(o, value) ==
    [res |-> o.res, up |-> o.up, del |-> o.del, value |-> <<value>>]

\* Two operations ended alike.
Alike(a, s) ==
    /\ a.res = s.res
    /\ a.up = s.up
    /\ a.del = s.del
    /\ (a.res = "ok" => a.value = s.value)

\* Both twins have run from Here; the overlay goes on from where the
\* asynchronous one left it.
Both(op, path, to, a, s) ==
    /\ Len(a.log) <= MaxLogLen
    /\ upper' = a.up
    /\ deletedFiles' = a.del
    /\ deleteLog' = a.log
    /\ last' = [op |-> op, path |-> path, to |-> to, res |-> a.res,
                onUpper |-> B_exists(upper, path), alike |-> Alike(a, s)]
    /\ UNCHANGED lower
    /\ UNCHANGED <<mutexVars, vfsVars, logWrites, objVars>>

\* An operation that changes nothing, with the value it returned.
Answers(r, value) ==
    [up |-> upper, del |-> deletedFiles, log |-> deleteLog, res |-> r.res,
     value |-> <<IF r.res = "ok" THEN value ELSE "none">>]

\* An operation that returns nothing.
Changes(o) ==
    [up |-> o.up, del |-> o.del, log |-> o.log, res |-> o.res, value |-> <<"none">>]

BothStat(p) ==
    Both("stat", p, p, Answers(stat(Here, p), stat(Here, p)),
                       Answers(statSync(Here, p), statSync(Here, p)))

BothReaddir(p) ==
    Both("readdir", p, p, Answers(readdir(Here, p), readdir(Here, p).names),
                          Answers(readdirSync(Here, p), readdirSync(Here, p).names))

BothOpenFile(p) ==
    Both("openFile", p, p, Answers(openFile(Here, p), openFile(Here, p)),
                           Answers(openFileSync(Here, p), openFileSync(Here, p)))

BothCreateFile(p, mode) ==
    Both("createFile", p, p, Changes(createFile(Here, p, mode)),
                             Changes(createFileSync(Here, p, mode)))

BothUnlink(p) ==
    Both("unlink", p, p, Changes(unlink(Here, p)),
                         Changes(Finished(unlinkSync(Here, p))))

BothRmdir(p) ==
    Both("rmdir", p, p, Changes(rmdir(Here, p)),
                        Changes(Finished(rmdirSync(Here, p))))

BothMkdir(p, mode) ==
    Both("mkdir", p, p, Changes(mkdir(Here, p, mode)),
                        Changes(mkdirSync(Here, p, mode)))

BothRename(p, q) ==
    Both("rename", p, q, Changes(rename(Here, p, q)),
                         Changes(renameSync(Here, p, q)))

\* sync and syncSync as a File of the overlay calls them: with the buffer
\* and the stats of the File.
BothSync(p, data) ==
    /\ openFile(Here, p).res = "ok"
    /\ Both("sync", p, p,
            Changes(sync(Here, p, data, openFile(Here, p).file.mode)),
            Changes(syncSync(Here, p, data, openFile(Here, p).file.mode)))

\* An overlay constructed over an upper that holds an empty log file, or
\* over an empty upper.
PairInit ==
    /\ upper \in {(Root :> Dir(511)) @@ (deletionLogPath :> File(420, <<>>)),
                  (Root :> Dir(511))}
    /\ lower = LowerAtStart
    /\ deletedFiles = {}
    /\ deleteLog = <<>>
    /\ logWrites = <<>>
    /\ last = [op |-> "construct", path |-> Root, to |-> Root, res |-> "ok",
               onUpper |-> TRUE, alike |-> TRUE]
    \* the mutex adapter is not part of these runs
    /\ locks = <<>>
    /\ timers = <<>>
    /\ iter = <<>>
    /\ stream = <<>>
    /\ txn = <<>>
    /\ currentLock = 0
    /\ pc = [t \in Tasks |-> "idle"]
    /\ call = [t \in Tasks |-> "none"]
    /\ myLock = [t \in Tasks |-> 0]
    /\ result = [t \in Tasks |-> "none"]
    /\ x = 1
    /\ backendCalls = 0
    \* the virtual file system is not part of these runs
    /\ mounted = <<>>
    /\ fdMap = <<>>
    /\ files = <<>>
    /\ pend = [op |-> "none"]
    /\ config = [checkAccess |-> TRUE, cred |-> "root"]
    /\ args = [surface |-> "sync", flag |-> "r", mode |-> 0]
    /\ events = <<>>
    /\ vlast = [op |-> "none"]
PairNext ==
    \/ \E p \in Targets : BothStat(p)
    \/ \E p \in Targets : BothReaddir(p)
    \/ \E p \in UserFiles : BothOpenFile(p)
    \/ \E p \in UserFiles, m \in FileModes : BothCreateFile(p, m)
    \/ \E p \in Targets : BothUnlink(p)
    \/ \E p \in Targets : BothRmdir(p)
    \/ \E p \in DirTargets, m \in DirModes : BothMkdir(p, m)
    \/ \E p \in UserFiles, q \in UserFiles : BothRename(p, q)
    \/ \E p \in UserFiles, d \in Written : BothSync(p, d)

PairSpec == PairInit /\ [][PairNext]_vars

\* C36: from the same state, each synchronous operation of the overlay ends
\* as its asynchronous twin does: same result or errno, same value, same
\* upper backend (with the log file, once the log write it began has
\* finished) and same deletedFiles.
C36_SyncAsAsync == last.alike


\* The paths either backend holds.
Held == DOMAIN upper \cup DOMAIN lower

\* C37: in the merged view every visible path other than / has a visible
\* parent that is a directory: no operation, unlink and rmdir of a
\* directory included, leaves a path visible below one that is not.
C37_ParentsVisible ==
    \A p \in Held \ {Root} :
        exists(Here, p) =>
           /\ exists(Here, dirname(p))
           /\ stat(Here, dirname(p)).kind = "dir"


(***************************************************************************)
(* CreateSpec: files are created and written, and files and directories   *)
(* removed and made, over a lower whose directory /a holds a file or is    *)
(* empty.                                                                  *)
(***************************************************************************)

CreateNext ==
    \/ \E p \in UserFiles, m \in FileModes : CreateFile(p, m)
    \/ \E p \in UserFiles : Unlink(p)
    \/ \E p \in DirTargets : Rmdir(p)
    \/ \E p \in DirTargets, m \in DirModes : Mkdir(p, m)
    \/ \E p \in UserFiles, d \in Written : WriteFile(p, d)

CreateSpec == OverlayDirInit /\ [][CreateNext]_vars

\* C38: createFile of a path that is not visible and was never deleted, in
\* a directory that is visible and that lower alone holds, ends ok; the
\* directory is on upper afterwards and so is the new file, which is
\* visible.
C38_CreateFile ==
    [][\A p \in UserFiles :
          ( /\ last'.op = "createFile" /\ last'.path = p
            /\ ~exists(Here, p) /\ p \notin deletedFiles
            /\ ~B_exists(upper, dirname(p))
            /\ exists(Here, dirname(p))
            /\ stat(Here, dirname(p)).kind = "dir" )
          => /\ last'.res = "ok"
             /\ dirname(p) \in DOMAIN upper'
             /\ p \in DOMAIN upper' /\ p \notin deletedFiles']_vars


(***************************************************************************)
(* SymlinkSpec: writeFile, readFile and stat on a root backend that holds  *)
(* the directory /d and the symbolic link /l to it.                        *)
(***************************************************************************)

l_path == <<"/", "l">>
ln_path == <<"/", "l", "/", "n">>
dn_path == <<"/", "d", "/", "n">>

LinkedPaths == {ln_path, dn_path}

SymlinkInit ==
    /\ mounted = (Root :> ((Root :> Dir(493)) @@ (d_path :> Dir(493))
                             @@ (l_path :> Link(d_path))))
    /\ config \in [checkAccess : BOOLEAN, cred : {"root"}]
    /\ args = [surface |-> "sync", flag |-> "r", mode |-> 0]
    /\ fdMap = <<>>
    /\ files = <<>>
    /\ pend = [op |-> "none"]
    /\ events = <<>>
    /\ vlast = [op |-> "none"]
    \* the mutex adapter and the overlay are not part of these runs
    /\ locks = <<>>
    /\ timers = <<>>
    /\ iter = <<>>
    /\ stream = <<>>
    /\ txn = <<>>
    /\ currentLock = 0
    /\ pc = [t \in Tasks |-> "idle"]
    /\ call = [t \in Tasks |-> "none"]
    /\ myLock = [t \in Tasks |-> 0]
    /\ result = [t \in Tasks |-> "none"]
    /\ x = 1
    /\ backendCalls = 0
    /\ upper = <<>>
    /\ lower = <<>>
    /\ deletedFiles = {}
    /\ deleteLog = <<>>
    /\ logWrites = <<>>
    /\ last = [op |-> "none"]
SymlinkNext ==
    \/ \E s \in Surfaces, p \in LinkedPaths, data \in FileData,
          tr \in IOOutcomes, cl \in IOOutcomes : VfsWriteFile(s, p, data, tr, cl)
    \/ \E s \in Surfaces, p \in LinkedPaths, cl \in IOOutcomes : VfsReadFile(s, p, cl)
    \/ \E s \in Surfaces, p \in LinkedPaths : VfsStat(s, p)

SymlinkSpec == SymlinkInit /\ [][SymlinkNext]_vars

\* C39: writeFile('/l/n', B), with /l a symbolic link to the directory /d and
\* no /d/n yet, creates the file in /d: unless the backend's I/O fails the
\* call ends ok, and /d/n then exists and holds B (what readFile('/d/n')
\* returns).
C39_CreateThroughLink ==
    [][(/\ vlast'.op = "writeFile"
        /\ vlast'.path = ln_path
        /\ ~Has(mounted, dn_path)
        /\ vlast'.res # "EIO")
       => (/\ vlast'.res = "ok"
           /\ Has(mounted', dn_path)
           /\ Node(mounted', dn_path).data = vlast'.data)]_vars

====
